---- MODULE Spec2Model ----
(***************************************************************************)
(* GAM+Sync: the Memorizer's proposal processor (queue consumer, advisory  *)
(* lock, tiered validator, approval transaction) and the execution-plan    *)
(* scheduler, as state machines over the relational store and the two      *)
(* Redis streams.                                                          *)
(***************************************************************************)
EXTENDS Integers, Sequences, FiniteSets, TLC

(***************************************************************************)
(* Bounds of the model.                                                    *)
(***************************************************************************)
\* number of proposal messages the researchers push onto agent_proposals
MaxSubmit == 2

\* Memorizer consumers running ConsumeProposals against the same pool
Procs == {"m1", "m2"}
\* sessions of the shared pgx connection pool
Conns == {"c1", "c2"}

(***************************************************************************)
(* Bytes and the FNV-1a hash of a region path.  A 64-bit word is a         *)
(* little-endian sequence of eight bytes, so that every product stays      *)
(* inside TLC's integers        and the arithmetic is exactly mod 2^64.   *)
(***************************************************************************)
WordLen == 8
ByteMod == 256

RECURSIVE XorBits(_, _, _)
XorBits(a, b, n) ==
    IF n = 0 THEN 0
    ELSE (((a % 2) + (b % 2)) % 2) + 2 * XorBits(a \div 2, b \div 2, n - 1)

XorByte(a, b) == XorBits(a, b, 8)

RECURSIVE ConvSum(_, _, _, _)
\* sum of a[i] * b[k+1-i] for i in 1..i
ConvSum(a, b, k, i) ==
    IF i = 0 THEN 0 ELSE a[i] * b[k + 1 - i] + ConvSum(a, b, k, i - 1)

RECURSIVE MulCarry(_, _, _, _)
MulCarry(a, b, k, carry) ==
    IF k > WordLen THEN <<>>
    ELSE LET s == ConvSum(a, b, k, k) + carry
         IN  <<s % ByteMod>> \o MulCarry(a, b, k + 1, s \div ByteMod)

\* a * b mod 2^64
MulWord(a, b) == MulCarry(a, b, 1, 0)

\* 14695981039346656037 = 0xcbf29ce484222325
FnvOffset == <<37, 35, 34, 132, 228, 156, 242, 203>>
\* 1099511628211 = 0x00000100000001b3
FnvPrime == <<179, 1, 0, 0, 0, 1, 0, 0>>

RECURSIVE FnvFold(_, _, _)
FnvFold(h, s, i) ==
    IF i > Len(s) THEN h
    ELSE FnvFold(MulWord([h EXCEPT ![1] = XorByte(h[1], s[i])], FnvPrime), s, i + 1)

\* int64(h) keeps the bit pattern of h, so the key is the eight bytes
hashTo64Bit(s) == FnvFold(FnvOffset, s, 1)

(***************************************************************************)
(* Region paths are byte strings; '.' separates the segments.              *)
(***************************************************************************)
Dot == 46
PathA == <<97>>                 \* "a"
PathAB == <<97, Dot, 98>>       \* "a.b"
PathC == <<99>>                 \* "c"
PathAC == <<97, Dot, 99>>       \* "a.c"

\* rows of the regions table
Regions == {PathA, PathAB, PathAC}

IsPrefix(s, t) == Len(s) <= Len(t) /\ SubSeq(t, 1, Len(s)) = s

\* a path comparison that would also match the descendants of a region
IsRelated(anc, desc) == IsPrefix(anc, desc) \/ IsPrefix(desc, anc)

\* ltree: anc @> desc, strict ancestor or equal
IsAncestorOrSelf(anc, desc) ==
    \/ anc = desc
    \/ /\ Len(anc) < Len(desc)
       /\ IsPrefix(anc, desc)
       /\ desc[Len(anc) + 1] = Dot

LockKeys == {hashTo64Bit(r) : r \in Regions}


(***************************************************************************)
(* Rows the administrative commands created before the processors start:   *)
(* concepts, their assignments to regions, and the turns of the            *)
(* researchers.  No operation modelled here changes them.                  *)
(***************************************************************************)
\* a nil evidence block, and the absence of a synchronizations row
NoApi == [present |-> FALSE, removals |-> <<>>]
NoMigration == [present |-> FALSE, operations |-> <<>>]
NoSync == [present |-> FALSE, when |-> <<>>, where |-> <<>>, then |-> <<>>,
           enabled |-> FALSE]
SyncRow(sc) == [present |-> TRUE, when |-> sc.when, where |-> sc.where,
                then |-> sc.then, enabled |-> TRUE]
NoTurn == ""

ConceptNames == <<"A", "B", "M">>      \* ORDER BY c.name

ConceptRow(c) ==
    IF c = "A"
    THEN [name |-> "A",
          actions |-> {"query", "index"},
          fields |-> {"items"},
          transitions |-> {<<"draft", "implementation", "implement">>},
          invariants |-> <<[name |-> "api_surface", type |-> "api",
                            noRemovals |-> FALSE, forbidden |-> {}]>>]
    ELSE IF c = "B"
    THEN [name |-> "B",
          actions |-> {"store"},
          fields |-> {"rows"},
          transitions |-> {<<"draft", "implementation", "implement">>,
                           <<"implementation", "testing", "test">>},
          invariants |-> <<>>]
    ELSE [name |-> "M",
          actions |-> {"migrate"},
          fields |-> {},
          transitions |-> {<<"draft", "implementation", "implement">>,
                           <<"implementation", "testing", "test">>},
          invariants |-> <<[name |-> "schema", type |-> "migration",
                            noRemovals |-> FALSE, forbidden |-> {"DROP_COLUMN"}],
                           [name |-> "exports", type |-> "api",
                            noRemovals |-> TRUE, forbidden |-> {}]>>]

\* concept_region_assignments before the first `concept assign` modelled
AssignedTo(c) == IF c = "A" THEN PathA ELSE PathAB
InitAssignments == {<<"A", AssignedTo("A")>>, <<"B", AssignedTo("B")>>}

\* turns.scope_path
TurnScope == [t \in {"t1", "t2"} |-> IF t = "t1" THEN PathA ELSE PathAB]

\* (file, path) pairs for which the file holds the markers of the path
MarkedFiles == {<<"s.go", PathA>>, <<"s.go", PathAB>>}

FileHasRegionMarkers(file, path) == <<file, path>> \in MarkedFiles

(***************************************************************************)
(* Synchronizations and their sync_refs projection.                        *)
(***************************************************************************)
Ref(c, a) == [concept |-> c, action |-> a]
Where(c, fs) == [concept |-> c, fields |-> fs]

Sync(n, w, wh, t) == [name |-> n, when |-> w, where |-> wh, then |-> t]

SeqRange(s) == {s[i] : i \in 1..Len(s)}

\* the rows buildSyncRefsTx inserts for a sync whose row exists
ClauseRefs(sc) ==
    {<<sc.name, w.concept, w.action, "when">> : w \in SeqRange(sc.when)}
    \cup {<<sc.name, t.concept, t.action, "then">> : t \in SeqRange(sc.then)}
    \cup UNION {{<<sc.name, w.concept, f, "where">> : f \in w.fields} :
                    w \in SeqRange(sc.where)}

SyncNames == {"S1", "S2", "S3"}

\* the synchronization registered before the processors start
InitSync == Sync("S1", <<Ref("A", "query")>>, <<>>, <<Ref("A", "index")>>)

(***************************************************************************)
(* Validator, tier 0.                                                      *)
(***************************************************************************)
Detail(check, passed, fix) == [check |-> check, passed |-> passed, fix |-> fix]

Result(tier, passed, code, details) ==
    [tier |-> tier, passed |-> passed, code |-> code, details |-> details]

RECURSIVE FirstUnmarked(_, _)
\* index of the first modified region whose file lacks the markers, 0 if none
FirstUnmarked(mrs, i) ==
    IF i > Len(mrs) THEN 0
    ELSE IF ~FileHasRegionMarkers(mrs[i].file, mrs[i].path) THEN i
    ELSE FirstUnmarked(mrs, i + 1)

\* qerr names the store query of this run that fails, "none" if none does
Tier0Structural(p, regionRows, qerr) ==
    IF qerr = "region"
    THEN Result(0, FALSE, 1, <<>>)
    ELSE IF p.region \notin regionRows
    THEN Result(0, FALSE, 1, <<Detail("region_exists", FALSE, "add to arch.md")>>)
    ELSE IF /\ p.turn # NoTurn
            /\ qerr # "scope"
            /\ ~IsAncestorOrSelf(TurnScope[p.turn], p.region)
    THEN Result(0, FALSE, 2, <<Detail("scope_check", FALSE, "start a new turn")>>)
    ELSE IF FirstUnmarked(p.modifiedRegions, 1) # 0
    THEN Result(0, FALSE, 3, <<Detail("region_markers", FALSE, "add markers")>>)
    ELSE Result(0, TRUE, 0, <<>>)


(***************************************************************************)
(* Validator, tier 1.                                                      *)
(***************************************************************************)
RECURSIVE ConceptsFrom(_, _, _)
\* assignRows are the rows of concept_region_assignments joined with their
\* concept and region: <<concept name, region path>>
ConceptsFrom(path, assignRows, i) ==
    IF i > Len(ConceptNames) THEN <<>>
    ELSE (IF \E a \in assignRows :
                /\ a[1] = ConceptNames[i]
                /\ a[2] \in Regions
                /\ IsAncestorOrSelf(a[2], path)
          THEN <<ConceptRow(ConceptNames[i])>> ELSE <<>>)
         \o ConceptsFrom(path, assignRows, i + 1)

\* concepts assigned to the region or to one of its ancestors, by name
GetConceptsForRegion(path, assignRows) == ConceptsFrom(path, assignRows, 1)

isLegalTransition(sm, from, to, action) == <<from, to, action>> \in sm

\* an api check that would report a missing block without saying how to fix it
checkInvariantNoFix(inv, p) ==
    IF inv.type = "api" /\ ~p.api.present
    THEN Detail(inv.name, FALSE, "")
    ELSE Detail(inv.name, TRUE, "")

checkInvariant(inv, p) ==
    IF inv.type = "api"
    THEN IF ~p.api.present
         THEN Detail(inv.name, FALSE, "add api_analysis")
         ELSE IF inv.noRemovals /\ Len(p.api.removals) > 0
         THEN Detail(inv.name, FALSE, "restore removed exports")
         ELSE Detail(inv.name, TRUE, "")
    ELSE IF inv.type = "migration"
    THEN IF ~p.migration.present
         THEN Detail(inv.name, FALSE, "add migration_analysis")
         ELSE IF SeqRange(p.migration.operations) \cap inv.forbidden # {}
         THEN Detail(inv.name, FALSE, "use a non-destructive migration")
         ELSE Detail(inv.name, TRUE, "")
    ELSE Detail(inv.name, TRUE, "")

ActionExists(c, a) ==
    \E i \in 1..Len(ConceptNames) :
        ConceptNames[i] = c /\ a \in ConceptRow(c).actions

FieldExists(c, f) ==
    \E i \in 1..Len(ConceptNames) :
        ConceptNames[i] = c /\ f \in ConceptRow(c).fields

\* the number of EXISTS queries validateSyncRefs can run for the sync
RefQueries(sc) == Cardinality(ClauseRefs(sc))

\* a validator that would skip the reference check of tier 1
SyncRefsUnchecked(sc, qerr) == TRUE

\* TRUE iff every when/then action and every where field exists; a failing
\* query leaves exists = false, so the first reference checked is reported
SyncRefsOk(sc, qerr) ==
    /\ ~(qerr = "syncref" /\ RefQueries(sc) > 0)
    /\ \A w \in SeqRange(sc.when) : ActionExists(w.concept, w.action)
    /\ \A t \in SeqRange(sc.then) : ActionExists(t.concept, t.action)
    /\ \A w \in SeqRange(sc.where) : \A f \in w.fields : FieldExists(w.concept, f)

validateSyncRefs(sc, qerr) ==
    IF SyncRefsOk(sc, qerr)
    THEN Detail("sync_refs", TRUE, "")
    ELSE Detail("sync_refs", FALSE, "define the action or fix the clause")

\* names of the enabled syncs with a sync_refs row whose action_name is a
findSyncRefsForAction(a, syncRows, refRows, qerr) ==
    IF qerr = "findrefs" THEN {}
    ELSE {r[1] : r \in {x \in refRows :
                            /\ x[3] = a
                            /\ x[4] \in {"when", "then"}
                            /\ syncRows[x[1]].present
                            /\ syncRows[x[1]].enabled}}

RECURSIVE InvariantsFrom(_, _, _, _)
\* details of the invariants of one concept, stopping at the first failure
InvariantsFrom(invs, p, i, acc) ==
    IF i > Len(invs) THEN acc
    ELSE LET d == checkInvariant(invs[i], p)
         IN  IF d.passed THEN InvariantsFrom(invs, p, i + 1, Append(acc, d))
             ELSE Append(acc, d)

AllPassed(ds) == \A i \in 1..Len(ds) : ds[i].passed

RECURSIVE ConceptChecks(_, _, _, _)
\* the loop over the governing concepts: transition, then invariants
ConceptChecks(cs, p, i, acc) ==
    IF i > Len(cs) THEN Result(1, TRUE, 0, acc)
    ELSE IF /\ p.current # "" /\ p.proposed # ""
            /\ ~isLegalTransition(cs[i].transitions, p.current, p.proposed, p.action)
    THEN Result(1, FALSE, -2,
                Append(acc, Detail("state_transition", FALSE, "legal transitions")))
    ELSE LET ds == InvariantsFrom(cs[i].invariants, p, 1, acc)
         IN  IF AllPassed(ds) THEN ConceptChecks(cs, p, i + 1, ds)
             ELSE Result(1, FALSE, -1, ds)

RECURSIVE SyncChecks(_, _, _)
\* index of the first added or modified sync with a broken reference
SyncChecks(scs, qerr, i) ==
    IF i > Len(scs) THEN 0
    ELSE IF ~validateSyncRefs(scs[i], qerr).passed THEN i
    ELSE SyncChecks(scs, qerr, i + 1)

RECURSIVE RemovalChecks(_, _, _, _, _)
\* index of the first removed action some enabled sync still references
RemovalChecks(rem, syncRows, refRows, qerr, i) ==
    IF i > Len(rem) THEN 0
    ELSE IF findSyncRefsForAction(rem[i], syncRows, refRows, qerr) # {} THEN i
    ELSE RemovalChecks(rem, syncRows, refRows, qerr, i + 1)

\* the result of tier 1 when the concept lookup succeeded
Tier1StateMachine(p, assignRows, syncRows, refRows, qerr) ==
    LET r1 == ConceptChecks(GetConceptsForRegion(p.region, assignRows), p, 1, <<>>)
        scs == p.added \o p.modified
    IN  IF ~r1.passed THEN r1
        ELSE IF SyncChecks(scs, qerr, 1) # 0
        THEN Result(1, FALSE, -3,
                    Append(r1.details, validateSyncRefs(scs[SyncChecks(scs, qerr, 1)], qerr)))
        ELSE IF /\ p.api.present
                /\ RemovalChecks(p.api.removals, syncRows, refRows, qerr, 1) # 0
        THEN Result(1, FALSE, -4,
                    Append(r1.details, Detail("action_removal", FALSE, "update syncs")))
        ELSE r1

\* a Validate that would run tier 1 whatever tier 0 found and report the
\* failure of tier 1 first
ValidateBothTiers(p, regionRows, assignRows, syncRows, refRows, qerr) ==
    LET r0 == Tier0Structural(p, regionRows, qerr)
        r1 == Tier1StateMachine(p, assignRows, syncRows, refRows, qerr)
    IN  IF qerr = "concepts"
        THEN [err |-> TRUE, result |-> Result(1, FALSE, 0, <<>>)]
        ELSE IF ~r1.passed THEN [err |-> FALSE, result |-> r1]
        ELSE [err |-> FALSE, result |-> r0]

\* Validate: [err |-> the store error returned, result |-> the result]
Validate(p, regionRows, assignRows, syncRows, refRows, qerr) ==
    LET r0 == Tier0Structural(p, regionRows, qerr)
    IN  IF ~r0.passed THEN [err |-> FALSE, result |-> r0]
        ELSE IF qerr = "concepts"
        THEN [err |-> TRUE, result |-> Result(1, FALSE, 0, <<>>)]
        ELSE [err |-> FALSE,
              result |-> Tier1StateMachine(p, assignRows, syncRows, refRows, qerr)]


(***************************************************************************)
(* The proposals the researchers can submit.                               *)
(***************************************************************************)
Prop(id, turn, region, action, current, proposed, added, modified, deleted, api, mrs, deferred) ==
    [id |-> id, turn |-> turn, region |-> region, action |-> action,
     current |-> current, proposed |-> proposed,
     added |-> added, modified |-> modified, deleted |-> deleted,
     api |-> api, migration |-> NoMigration,
     modifiedRegions |-> mrs, deferred |-> deferred]

NoRemovals == [present |-> TRUE, removals |-> <<>>]

\* the proposal of a caller that has not called Validate yet
NoProposal ==
    [id |-> "", turn |-> NoTurn, region |-> <<>>, action |-> "",
     current |-> "", proposed |-> "", added |-> <<>>, modified |-> <<>>,
     deleted |-> <<>>, api |-> NoApi, migration |-> NoMigration,
     modifiedRegions |-> <<>>, deferred |-> <<>>]

PropIds == {"p1", "p2", "p3"}

\* the id of a proposal that names a proposed state and no current state
BareId == "p4"

Proposal(id) ==
    CASE id = "p1" ->
           Prop("p1", "t1", PathAB, "implement", "draft", "implementation",
                <<Sync("S2", <<Ref("A", "query")>>, <<Where("B", {"rows"})>>,
                       <<Ref("B", "store")>>)>>,
                <<>>, <<>>, NoRemovals,
                <<[path |-> PathAB, file |-> "s.go"]>>,
                <<[region |-> PathA, type |-> "fix"]>>)
      [] id = "p2" ->
           Prop("p2", "t2", PathAB, "document", "", "",
                <<Sync("S2", <<Ref("B", "store")>>, <<>>, <<Ref("A", "query")>>)>>,
                <<Sync("S1", <<Ref("A", "index")>>, <<Where("A", {"items"})>>,
                       <<Ref("A", "query")>>),
                  Sync("S3", <<Ref("B", "store")>>, <<>>, <<Ref("A", "index")>>)>>,
                <<>>, NoRemovals, <<>>, <<>>)
      [] id = BareId ->
           Prop(BareId, "t1", PathAB, "test", "", "testing",
                <<>>, <<>>, <<>>, NoRemovals, <<>>, <<>>)
      [] OTHER ->
           Prop("p3", "t1", PathA, "implement", "draft", "implementation",
                <<Sync("S2", <<Ref("A", "missing")>>, <<>>, <<Ref("A", "index")>>)>>,
                <<>>, <<"S1">>, NoRemovals, <<>>, <<>>)

(***************************************************************************)
(* State.                                                                  *)
(***************************************************************************)
VARIABLES
    propStatus,     \* proposals.status, "none" before the row is inserted
    propCode,       \* proposals.validation_error_code
    lifecycle,      \* regions.lifecycle_state
    syncs,          \* synchronizations, by name
    syncRefs,       \* sync_refs rows <<sync, concept, action or field, clause>>
    idle,           \* connections of the pool that are not borrowed
    locks,          \* advisory locks: per session, per key, the hold count
    stream,         \* agent_proposals entries
    lastDelivered,  \* last-delivered id of group memorizer_pool
    pel,            \* pending entries list of the group
    acked,          \* entries the group acknowledged
    tasks,          \* agent_tasks entries
    turnRows,       \* ids of the turns rows the Memorizer inserted
    cancelled,      \* the context of the consumers is done
    pc,             \* per consumer: its position in ConsumeProposals
    cur,            \* per consumer: the stream entry it is processing
    lockConn,       \* per consumer: the session its lock statement waits on
    res,            \* per consumer: passed and code of this run's validation
    perr,           \* per consumer: processProposal returns an error
    runs,           \* per stream entry: processProposal calls made for it
    planStatus,     \* execution_plans.status of the plan, "none" before it exists
    planTurns,      \* plan_turns rows of the plan, by turn id
    taken,          \* agent_tasks entries whose turn ended in an approval
    wpc,            \* per scheduler caller: its position
    wrows,          \* per scheduler caller: rows of its query not yet visited
    decisions,      \* execution_plans.decisions of the plan
    decideCalls,    \* calls of RecordDecision made so far
    decideErr,      \* the last call of RecordDecision returned an error
    srcTree,        \* source tree: per region path, where its markers stand
    srcWarnings,    \* the scan of the source tree reports marker warnings
    archPaths,      \* region paths arch.md declares
    edits,          \* edits made to the source tree and to arch.md
    turns,          \* rows of the turns table written by `turn start`
    turnOrder,      \* ids of those rows in the order of created_at
    turnRegions,    \* turn_regions: per turn and region, the action
    lastOp,         \* the command that ran last
    endErr,         \* what the last `turn end` returned
    assignments,    \* concept_region_assignments: <<concept, region path>>
    vpc,            \* the caller of Validate: "idle", or "done" with a result
    vIn,            \* the proposal and the failing query of the last Validate
    vConcepts,      \* names of the concepts that run collected
    vOut,           \* what that run returned
    rpc,            \* the processor's position in the tier 3 review
    rvIter,         \* reviewLoop: i
    rvAudits,       \* calls of llmAudit made for the proposal
    rvComment,      \* the comment reviewLoop built last
    rvRevision,     \* revisions of the proposal received so far
    rvStatus,       \* proposals.status of the proposal under review
    rvReason,       \* proposals.rejection_reason of it, <<>> when NULL
    gpc,            \* the caller of RunGardener: "idle" or "returned"
    gDry,           \* dryRun of the last call of RunGardener
    gFindings,      \* the findings that call returned
    gErr,           \* that call returned an error
    rgFile,         \* one file of the project: whether it exists, its lines
    rgFresh,        \* the file was created by ScaffoldRegion
    rgScaffolded,   \* region paths scaffolded into the file since it was written
    rgOp,           \* the operation on the file that ran last
    rgArg,          \* the region path that operation was called with
    rgOut           \* what the last ScanFile or ValidateArchNamespaces returned

storeVars == <<propStatus, propCode, lifecycle, syncs, syncRefs>>
poolVars == <<idle, locks>>
queueVars == <<stream, lastDelivered, pel, acked>>
procVars == <<pc, cur, lockConn, res, perr, runs>>
decideVars == <<decisions, decideCalls, decideErr>>
fsVars == <<srcTree, srcWarnings, archPaths, edits>>
turnVars == <<fsVars, turns, turnOrder, turnRegions, lastOp, endErr>>
valVars == <<assignments, vpc, vIn, vConcepts, vOut>>
reviewVars == <<rpc, rvIter, rvAudits, rvComment, rvRevision, rvStatus, rvReason>>
gardenVars == <<gpc, gDry, gFindings, gErr>>
regionVars == <<rgFile, rgFresh, rgScaffolded, rgOp, rgArg, rgOut>>
extVars == <<turnVars, valVars, reviewVars, gardenVars, regionVars>>
planVars == <<planStatus, planTurns, taken, wpc, wrows, decideVars, extVars>>
vars == <<storeVars, poolVars, queueVars, tasks, turnRows, cancelled, procVars,
          planVars>>

\* the caller of CreatePlan and the consumers whose approvals reach
\* UpdatePlanProgress
Creator == "creator"
Approvers == {"a1", "a2"}
Callers == {Creator} \cup Approvers

\* turn ids GenerateTurnID can return within one second
GenIds == {"g1", "g2"}

\* nothing returned yet
NoScan == [markers |-> <<>>, warnings |-> <<>>, err |-> FALSE, issues |-> <<>>]

NoPlanTurn == [present |-> FALSE, deps |-> {}, status |-> "none"]


NoConn == "none"
Outcome(r) == [passed |-> r.passed, code |-> r.code]
NoResult == [passed |-> FALSE, code |-> 0]

\* region paths that occur in the source tree or in arch.md
SrcPaths == {PathA, PathAB, PathC}

\* places a region's markers can stand at; 0 is a region without markers
Locs(p) == IF p = PathA THEN {1, 2} ELSE {1}

\* the scope `turn start` is called with
Scopes == {PathAB}

\* ids GenerateTurnID can return to `turn start`
TurnIds == {"T1", "T2"}

NoComment == [severity |-> "", iteration |-> 0, concern |-> ""]
NoInput == [p |-> NoProposal, qerr |-> "none"]
NoOutput == [err |-> FALSE, result |-> Result(0, TRUE, 0, <<>>)]

NoTurnRow ==
    [present |-> FALSE, scope |-> <<>>, status |-> "none", scratchpad |-> "",
     completed |-> FALSE, tree_before |-> {}, tree_after |-> {}]

Init ==
    /\ propStatus = [i \in PropIds \cup {BareId} |-> "none"]
    /\ propCode = [i \in PropIds \cup {BareId} |-> 0]
    /\ lifecycle = [r \in Regions |-> "draft"]
    /\ syncs = [n \in SyncNames |->
                  IF n = InitSync.name THEN SyncRow(InitSync) ELSE NoSync]
    /\ syncRefs = ClauseRefs(InitSync)
    /\ idle = Conns
    /\ locks = [c \in Conns |-> [k \in LockKeys |-> 0]]
    /\ stream = <<>>
    /\ lastDelivered = 0
    /\ pel = {}
    /\ acked = {}
    /\ tasks = <<>>
    /\ turnRows = {}
    /\ cancelled = FALSE
    /\ pc = [p \in Procs |-> "idle"]
    /\ cur = [p \in Procs |-> 0]
    /\ lockConn = [p \in Procs |-> NoConn]
    /\ res = [p \in Procs |-> NoResult]
    /\ perr = [p \in Procs |-> FALSE]
    /\ runs = [i \in 1..MaxSubmit |-> 0]
    /\ planStatus = "none"
    /\ planTurns = [t \in GenIds |-> NoPlanTurn]
    /\ taken = 0
    /\ wpc = [w \in Callers |-> "idle"]
    /\ wrows = [w \in Callers |-> {}]
    /\ decisions = <<>>
    /\ decideCalls = 0
    /\ decideErr = FALSE
    /\ srcTree = [p \in SrcPaths |-> IF p = PathA THEN 1 ELSE 0]
    /\ srcWarnings = FALSE
    /\ archPaths = {PathA}
    /\ edits = 0
    /\ turns = [t \in TurnIds |-> NoTurnRow]
    /\ turnOrder = <<>>
    /\ turnRegions = [k \in TurnIds \X SrcPaths |-> "none"]
    /\ lastOp = "none"
    /\ endErr = "none"
    /\ assignments = InitAssignments
    /\ vpc = "idle"
    /\ vIn = NoInput
    /\ vConcepts = <<>>
    /\ vOut = NoOutput
    /\ rpc = "idle"
    /\ rvIter = 0
    /\ rvAudits = 0
    /\ rvComment = NoComment
    /\ rvRevision = 0
    /\ rvStatus = "PENDING"
    /\ rvReason = <<>>
    /\ gpc = "idle"
    /\ gDry = FALSE
    /\ gFindings = <<>>
    /\ gErr = FALSE
    /\ rgFile = [exists |-> FALSE, lines |-> <<>>]
    /\ rgFresh = FALSE
    /\ rgScaffolded = {}
    /\ rgOp = "none"
    /\ rgArg = <<>>
    /\ rgOut = NoScan


(***************************************************************************)
(* approveProposal's transaction.  A transaction state is the store as the *)
(* transaction sees it plus whether a statement has failed; after a failed *)
(* statement the server ignores the rest and Commit rolls back.            *)
(***************************************************************************)
StoreRec == [status |-> propStatus, lifecycle |-> lifecycle,
             syncs |-> syncs, refs |-> syncRefs]

RefsOf(refRows, name) == {r \in refRows : r[1] = name}

buildSyncRefsTx(tx, sc) ==
    IF tx.failed \/ ~tx.st.syncs[sc.name].present THEN tx
    ELSE [tx EXCEPT !.st.refs = @ \cup ClauseRefs(sc)]

\* INSERT INTO synchronizations: name is UNIQUE
insertSyncTx(tx, sc) ==
    IF tx.failed THEN tx
    ELSE IF tx.st.syncs[sc.name].present THEN [tx EXCEPT !.failed = TRUE]
    ELSE buildSyncRefsTx([tx EXCEPT !.st.syncs[sc.name] = SyncRow(sc)], sc)

\* UPDATE synchronizations ... WHERE name; DELETE FROM sync_refs; rebuild
updateSyncTx(tx, sc) ==
    IF tx.failed THEN tx
    ELSE IF ~tx.st.syncs[sc.name].present THEN tx
    ELSE buildSyncRefsTx(
           [tx EXCEPT !.st.syncs[sc.name] =
                [@ EXCEPT !.when = sc.when, !.where = sc.where, !.then = sc.then],
                   !.st.refs = @ \ RefsOf(@, sc.name)], sc)

\* DELETE FROM synchronizations WHERE name; sync_refs rows cascade
deleteSyncTx(tx, name) ==
    IF tx.failed THEN tx
    ELSE [tx EXCEPT !.st.syncs[name] = NoSync,
                    !.st.refs = @ \ RefsOf(@, name)]

RECURSIVE AddedFrom(_, _, _)
AddedFrom(tx, scs, i) ==
    IF i > Len(scs) THEN tx ELSE AddedFrom(insertSyncTx(tx, scs[i]), scs, i + 1)

RECURSIVE ModifiedFrom(_, _, _)
ModifiedFrom(tx, scs, i) ==
    IF i > Len(scs) THEN tx ELSE ModifiedFrom(updateSyncTx(tx, scs[i]), scs, i + 1)

RECURSIVE DeletedFrom(_, _, _)
DeletedFrom(tx, ns, i) ==
    IF i > Len(ns) THEN tx ELSE DeletedFrom(deleteSyncTx(tx, ns[i]), ns, i + 1)

\* the statements of approveProposal between Begin and Commit
ApproveStatements(st, p) ==
    LET t0 == [st |-> [st EXCEPT !.status[p.id] = "APPROVED"], failed |-> FALSE]
        t1 == IF p.proposed # ""
              THEN [t0 EXCEPT !.st.lifecycle[p.region] = p.proposed]
              ELSE t0
    IN  DeletedFrom(ModifiedFrom(AddedFrom(t1, p.added, 1), p.modified, 1),
                    p.deleted, 1)

\* a commit that would keep what a failed transaction wrote before its
\* failing statement
CommitNoRollback(st, tx) == tx.st

\* what the store holds once Commit returned
CommitTx(st, tx) == IF tx.failed THEN st ELSE tx.st


(***************************************************************************)
(* The researchers push proposals; a cancellation may reach the consumers. *)
(* Any statement sent to the store can fail (a store error); with the      *)
(* context cancelled every store and queue call fails.                     *)
(***************************************************************************)
\* a researcher inserts the proposal row and pushes its message
PushProposal(id) ==
    /\ propStatus[id] = "none"
    /\ Len(stream) < MaxSubmit
    /\ propStatus' = [propStatus EXCEPT ![id] = "PENDING"]
    /\ stream' = Append(stream, [pid |-> id, path |-> Proposal(id).region])
    /\ UNCHANGED <<propCode, lifecycle, syncs, syncRefs, poolVars, lastDelivered,
                   pel, acked, tasks, turnRows, cancelled, procVars>>
    /\ UNCHANGED planVars

\* the context passed to ConsumeProposals is cancelled
Cancel ==
    /\ ~cancelled
    /\ \E p \in Procs : pc[p] # "idle"
    /\ cancelled' = TRUE
    /\ UNCHANGED <<storeVars, poolVars, queueVars, tasks, turnRows, procVars>>
    /\ UNCHANGED planVars

(***************************************************************************)
(* ConsumeProposals, one consumer p.                                       *)
(***************************************************************************)
Msg(p) == stream[cur[p]]
\* pathHash of processProposal, for every region path
PathHash == [r \in Regions |-> hashTo64Bit(r)]
Key(p) == PathHash[Msg(p).path]
Cur(p) == Proposal(Msg(p).pid)

\* a read that would hand out the last delivered entry again
SameEntry(last) == IF last = 0 THEN 1 ELSE last

\* the entry XREADGROUP hands out for the id ">": the first one never
\* delivered to the group
NextEntry(last) == last + 1

\* XREADGROUP memorizer_pool ... ">" COUNT 1, then the call of processProposal
ReadProposal(p) ==
    /\ pc[p] = "idle"
    /\ IF cancelled
       THEN /\ pc' = [pc EXCEPT ![p] = "stopped"]
            /\ UNCHANGED <<queueVars, cur, runs>>
       ELSE /\ lastDelivered < Len(stream)
            /\ lastDelivered' = NextEntry(lastDelivered)
            /\ pel' = pel \cup {NextEntry(lastDelivered)}
            /\ cur' = [cur EXCEPT ![p] = NextEntry(lastDelivered)]
            /\ runs' = [runs EXCEPT ![NextEntry(lastDelivered)] = @ + 1]
            /\ pc' = [pc EXCEPT ![p] = "lock"]
            /\ UNCHANGED <<stream, acked>>
    /\ UNCHANGED <<storeVars, poolVars, tasks, turnRows, cancelled, lockConn,
                   res, perr>>
    /\ UNCHANGED planVars

\* m.queue.AckProposal, whatever processProposal returned, and the end of
\* the iteration: its locals go out of scope
Ack(p) ==
    /\ IF cancelled
       THEN UNCHANGED <<pel, acked>>
       ELSE /\ pel' = pel \ {cur[p]}
            /\ acked' = acked \cup {cur[p]}
    /\ pc' = [pc EXCEPT ![p] = "idle"]
    /\ cur' = [cur EXCEPT ![p] = 0]
    /\ lockConn' = [lockConn EXCEPT ![p] = NoConn]
    /\ res' = [res EXCEPT ![p] = NoResult]
    /\ perr' = [perr EXCEPT ![p] = FALSE]
    /\ UNCHANGED <<stream, lastDelivered, runs>>

HeldElsewhere(c, k) == \E d \in Conns \ {c} : locks[d][k] > 0

\* m.db.Exec(pg_advisory_lock): the pool lends a session c; the server
\* grants the lock at once unless another session holds the key, and then
\* the statement waits on session c.  When the statement fails
\* processProposal returns before the unlock is deferred.
LockStart(p) ==
    /\ pc[p] = "lock"
    /\ \/ /\ ~cancelled
          /\ \E c \in idle :
                IF HeldElsewhere(c, Key(p))
                THEN /\ idle' = idle \ {c}
                     /\ lockConn' = [lockConn EXCEPT ![p] = c]
                     /\ pc' = [pc EXCEPT ![p] = "locking"]
                     /\ UNCHANGED locks
                ELSE /\ locks' = [locks EXCEPT ![c][Key(p)] = @ + 1]
                     /\ pc' = [pc EXCEPT ![p] = "fetch"]
                     /\ UNCHANGED <<idle, lockConn>>
          /\ UNCHANGED <<queueVars, cur, res, perr, runs>>
       \/ /\ Ack(p)
          /\ UNCHANGED <<idle, locks>>
    /\ UNCHANGED <<storeVars, tasks, turnRows, cancelled>>
    /\ UNCHANGED planVars

\* the waiting lock statement is granted; the session goes back to the pool
LockGranted(p) ==
    /\ pc[p] = "locking"
    /\ ~cancelled
    /\ ~HeldElsewhere(lockConn[p], Key(p))
    /\ locks' = [locks EXCEPT ![lockConn[p]][Key(p)] = @ + 1]
    /\ idle' = idle \cup {lockConn[p]}
    /\ lockConn' = [lockConn EXCEPT ![p] = NoConn]
    /\ pc' = [pc EXCEPT ![p] = "fetch"]
    /\ UNCHANGED <<storeVars, queueVars, tasks, turnRows, cancelled, cur,
                   res, perr, runs>>
    /\ UNCHANGED planVars

\* cancellation during the lock statement: pgx closes the session, which
\* drops its advisory locks, and the pool opens a new one in its place
LockCancelled(p) ==
    /\ pc[p] = "locking"
    /\ cancelled
    /\ locks' = [locks EXCEPT ![lockConn[p]] = [k \in LockKeys |-> 0]]
    /\ idle' = idle \cup {lockConn[p]}
    /\ Ack(p)
    /\ UNCHANGED <<storeVars, tasks, turnRows, cancelled>>
    /\ UNCHANGED planVars

\* the store query of a run that fails, "fetch" being getProposal's
QueryErrs == {"fetch", "region", "scope", "concepts", "syncref", "findrefs"}

\* a processor that would approve whatever the validator found
BranchApproveAll(v) == IF v.err THEN "unlock" ELSE "approve"

\* what processProposal does with the outcome v of the validation
Branch(v) ==
    IF v.err THEN "unlock"
    ELSE IF ~v.result.passed THEN "reject"
    ELSE "approve"

\* getProposal, m.validator.Validate and the branch processProposal takes
ValidateProposal(p) ==
    /\ pc[p] = "fetch"
    /\ cancelled \/ idle # {}
    /\ \E qerr \in (IF cancelled THEN {"fetch"} ELSE {"none"} \cup QueryErrs) :
          LET v == IF qerr = "fetch"
                   THEN [err |-> TRUE, result |-> Result(0, FALSE, 0, <<>>)]
                   ELSE Validate(Cur(p), Regions, assignments, syncs, syncRefs, qerr)
          IN  /\ res' = [res EXCEPT ![p] = Outcome(v.result)]
              /\ perr' = [perr EXCEPT ![p] = v.err]
              /\ pc' = [pc EXCEPT ![p] = Branch(v)]
    /\ UNCHANGED <<storeVars, poolVars, queueVars, tasks, turnRows, cancelled,
                   cur, lockConn, runs>>
    /\ UNCHANGED planVars

\* rejectProposal
RejectProposal(p) ==
    /\ pc[p] = "reject"
    /\ \/ /\ ~cancelled
          /\ idle # {}
          /\ propStatus' = [propStatus EXCEPT ![Cur(p).id] = "REJECTED"]
          /\ propCode' = [propCode EXCEPT ![Cur(p).id] = res[p].code]
          /\ UNCHANGED perr
       \/ /\ perr' = [perr EXCEPT ![p] = TRUE]
          /\ UNCHANGED <<propStatus, propCode>>
    /\ pc' = [pc EXCEPT ![p] = "unlock"]
    /\ UNCHANGED <<lifecycle, syncs, syncRefs, poolVars, queueVars, tasks,
                   turnRows, cancelled, cur, lockConn, res, runs>>
    /\ UNCHANGED planVars

\* approveProposal from m.db.Begin to tx.Commit, or to the deferred Rollback
\* when Begin or Commit fails.  The statements of the transaction wait for
\* the row locks of a concurrent one, so it acts on the store at its commit.
ApproveProposal(p) ==
    /\ pc[p] = "approve"
    /\ \/ /\ ~cancelled
          /\ idle # {}
          /\ LET tx == ApproveStatements(StoreRec, Cur(p))
                 st == CommitTx(StoreRec, tx)
             IN  /\ propStatus' = st.status
                 /\ lifecycle' = st.lifecycle
                 /\ syncs' = st.syncs
                 /\ syncRefs' = st.refs
                 /\ perr' = [perr EXCEPT ![p] = tx.failed]
                 /\ pc' = [pc EXCEPT ![p] =
                             IF tx.failed \/ Cur(p).deferred = <<>>
                             THEN "unlock" ELSE "post"]
       \/ /\ perr' = [perr EXCEPT ![p] = TRUE]
          /\ pc' = [pc EXCEPT ![p] = "unlock"]
          /\ UNCHANGED <<propStatus, lifecycle, syncs, syncRefs>>
    /\ UNCHANGED <<propCode, poolVars, queueVars, tasks, turnRows, cancelled,
                   cur, lockConn, res, runs>>
    /\ UNCHANGED planVars

\* approveProposal after the commit: queueTask for every deferred action.
\* The turns of these proposals belong to no plan, so the plan lookup finds
\* nothing, and a proposal without deferred actions goes on to the unlock.
QueueDeferred(p) ==
    /\ pc[p] = "post"
    /\ IF cancelled
       THEN UNCHANGED <<tasks, turnRows>>
       ELSE \E ids \in [1..Len(Cur(p).deferred) -> GenIds] :
              /\ turnRows' = turnRows \cup {ids[i] : i \in 1..Len(ids)}
              /\ tasks' = tasks \o
                    [i \in 1..Len(ids) |->
                        [turn |-> ids[i], region |-> Cur(p).deferred[i].region,
                         type |-> Cur(p).deferred[i].type]]
    /\ pc' = [pc EXCEPT ![p] = "unlock"]
    /\ UNCHANGED <<storeVars, poolVars, queueVars, cancelled, cur, lockConn,
                   res, perr, runs>>
    /\ UNCHANGED planVars

\* processProposal returns: the deferred m.db.Exec(pg_advisory_unlock) runs
\* on whichever session the pool lends, and a session that does not hold
\* the key only gets a warning; with the context cancelled the statement
\* is not sent.  Then the acknowledgement.
Unlock(p) ==
    /\ pc[p] = "unlock"
    /\ IF cancelled
       THEN UNCHANGED locks
       ELSE \E c \in idle :
              locks' = [locks EXCEPT ![c][Key(p)] = IF @ > 0 THEN @ - 1 ELSE 0]
    /\ Ack(p)
    /\ UNCHANGED <<storeVars, idle, tasks, turnRows, cancelled>>
    /\ UNCHANGED planVars

Consumer(p) ==
    \/ ReadProposal(p)
    \/ LockStart(p)
    \/ LockGranted(p)
    \/ LockCancelled(p)
    \/ ValidateProposal(p)
    \/ RejectProposal(p)
    \/ ApproveProposal(p)
    \/ QueueDeferred(p)
    \/ Unlock(p)

Next ==
    \/ \E id \in PropIds : PushProposal(id)
    \/ Cancel
    \/ \E p \in Procs : Consumer(p)

Spec == Init /\ [][Next]_vars

\* a producer pushes a message for a proposal id that was pushed before:
\* PushProposal is an XADD of the id and the region path, and the stream
\* takes any number of entries with the same payload
PushAgain(id) ==
    /\ propStatus[id] # "none"
    /\ Len(stream) < MaxSubmit
    /\ stream' = Append(stream, [pid |-> id, path |-> Proposal(id).region])
    /\ UNCHANGED <<storeVars, poolVars, lastDelivered, pel, acked, tasks,
                   turnRows, cancelled, procVars>>
    /\ UNCHANGED planVars

NextRepush ==
    \/ Next
    \/ \E id \in PropIds : PushAgain(id)

\* the processor with producers that may push an id more than once
SpecRepush == Init /\ [][NextRepush]_vars

NextBare ==
    \/ Next
    \/ PushProposal(BareId)

\* the processor with a researcher whose proposal leaves current_state empty
SpecBare == Init /\ [][NextBare]_vars

\* the memorizer command is started again after its context was cancelled:
\* a new process with a new pool, whose sessions hold no lock, reading the
\* same consumer group
Restart ==
    /\ cancelled
    /\ \A p \in Procs : pc[p] = "stopped"
    /\ cancelled' = FALSE
    /\ pc' = [p \in Procs |-> "idle"]
    /\ locks' = [c \in Conns |-> [k \in LockKeys |-> 0]]
    /\ idle' = Conns
    /\ UNCHANGED <<storeVars, queueVars, tasks, turnRows, cur, lockConn, res, perr, runs>>
    /\ UNCHANGED planVars

NextLive ==
    \/ Next
    \/ Restart

\* every consumer keeps taking the steps it can take, and a stopped
\* memorizer is started again
SpecLive ==
    /\ Init
    /\ [][NextLive]_vars
    /\ \A p \in Procs : WF_vars(Consumer(p))
    /\ WF_vars(Restart)


(***************************************************************************)
(* The plan scheduler: CreatePlan, UpdatePlanProgress and                  *)
(* queueReadyPlanTurns, run by the caller of CreatePlan and by the         *)
(* consumers whose approvals belong to a turn of the plan.                 *)
(***************************************************************************)
MaxTasks == 4

\* a turn as the caller of CreatePlan passes it: its own id for the turn
\* and the ids it depends on
PlanTurn(id, deps) == [turn |-> id, deps |-> deps]

\* the turn lists CreatePlan is called with; the caller of the last one
\* names the id it expects the first turn to get
PlanNames == {"chain", "flat", "guess"}
PlanInput(n) ==
    CASE n = "chain" -> <<PlanTurn("T1", {}), PlanTurn("T2", {"T1"})>>
      [] n = "flat"  -> <<PlanTurn("T1", {}), PlanTurn("T2", {})>>
      [] OTHER       -> <<PlanTurn("T1", {}), PlanTurn("T2", {"g1"})>>

\* a query that would only return the turns without depends_on
ReadyWithoutDeps(rows) ==
    {t \in GenIds : rows[t].present /\ rows[t].status = "pending" /\ rows[t].deps = {}}

\* the rows the query of queueReadyPlanTurns returns: pending turns with no
\* depends_on id that joins a plan_turns row of the plan which is not
\* completed
ReadyTurns(rows) ==
    {t \in GenIds :
        /\ rows[t].present
        /\ rows[t].status = "pending"
        /\ ~\E d \in rows[t].deps :
               /\ d \in GenIds
               /\ rows[d].present
               /\ rows[d].status # "completed"}

\* CreatePlan up to its commit: every turn gets a generated id, and
\* depends_on is stored as the caller passed it.  Two equal ids violate the
\* primary key of turns, and the commit fails.
CreatePlan(n) ==
    /\ wpc[Creator] = "idle"
    /\ planStatus = "none"
    /\ \E ids \in [1..Len(PlanInput(n)) -> GenIds] :
          IF \/ \E i, j \in DOMAIN ids : i # j /\ ids[i] = ids[j]
             \/ \E i \in DOMAIN ids : ids[i] \in turnRows
          THEN /\ wpc' = [wpc EXCEPT ![Creator] = "done"]
               /\ UNCHANGED <<planStatus, planTurns, turnRows>>
          ELSE /\ planStatus' = "ACTIVE"
               /\ turnRows' = turnRows \cup {ids[i] : i \in DOMAIN ids}
               /\ planTurns' =
                     [t \in GenIds |->
                        IF \E i \in DOMAIN ids : ids[i] = t
                        THEN [present |-> TRUE,
                              deps |-> PlanInput(n)[CHOOSE i \in DOMAIN ids :
                                                       ids[i] = t].deps,
                              status |-> "pending"]
                        ELSE planTurns[t]]
               /\ wpc' = [wpc EXCEPT ![Creator] = "select"]
    /\ UNCHANGED <<storeVars, poolVars, queueVars, tasks, cancelled, procVars,
                   taken, wrows>>
    /\ UNCHANGED <<decideVars, extVars>>

\* a count that would look at the pending rows only
RemainingPending(rows) ==
    Cardinality({t \in GenIds : rows[t].present /\ rows[t].status = "pending"})

\* the number of plan_turns rows of the plan that are not completed
Remaining(rows) ==
    Cardinality({t \in GenIds : rows[t].present /\ rows[t].status # "completed"})

\* UpdatePlanProgress up to its call of queueReadyPlanTurns, for the turn
\* of the next task whose proposal was approved
UpdatePlanProgress(w) ==
    /\ wpc[w] = "idle"
    /\ taken < Len(tasks)
    /\ taken' = taken + 1
    /\ LET t == tasks[taken + 1].turn
           rows == [planTurns EXCEPT ![t].status =
                       IF planTurns[t].present THEN "completed" ELSE @]
       IN  /\ planTurns' = rows
           /\ planStatus' = IF Remaining(rows) = 0 THEN "COMPLETED" ELSE planStatus
    /\ wpc' = [wpc EXCEPT ![w] = "select"]
    /\ UNCHANGED <<storeVars, poolVars, queueVars, tasks, turnRows, cancelled,
                   procVars, wrows>>
    /\ UNCHANGED <<decideVars, extVars>>

\* where a caller is once queueReadyPlanTurns returned
Returned(w) == IF w = Creator THEN "done" ELSE "idle"

\* queueReadyPlanTurns: the query; without rows, or when it fails, the
\* function returns
SelectReady(w) ==
    /\ wpc[w] = "select"
    /\ \E rows \in {ReadyTurns(planTurns), {}} :
          /\ wrows' = [wrows EXCEPT ![w] = rows]
          /\ wpc' = [wpc EXCEPT ![w] = IF rows = {} THEN Returned(w) ELSE "loop"]
    /\ UNCHANGED <<storeVars, poolVars, queueVars, tasks, turnRows, cancelled,
                   procVars, planStatus, planTurns, taken>>
    /\ UNCHANGED <<decideVars, extVars>>

\* queueReadyPlanTurns: one iteration over the rows of the query, the
\* UPDATE to active and the PushTask
ActivateTurn(w) ==
    /\ wpc[w] = "loop"
    /\ Len(tasks) < MaxTasks
    /\ \E t \in wrows[w] :
          /\ planTurns' = [planTurns EXCEPT ![t].status = "active"]
          /\ tasks' = Append(tasks, [turn |-> t, region |-> PathA,
                                     type |-> "implement"])
          /\ wrows' = [wrows EXCEPT ![w] = @ \ {t}]
          /\ wpc' = [wpc EXCEPT ![w] =
                       IF wrows[w] = {t} THEN Returned(w) ELSE "loop"]
    /\ UNCHANGED <<storeVars, poolVars, queueVars, turnRows, cancelled,
                   procVars, planStatus, taken>>
    /\ UNCHANGED <<decideVars, extVars>>

MaxDecisions == 2

\* the rows `UPDATE execution_plans ... WHERE id = $2 AND status = 'ACTIVE'`
\* changes: the plan's row when the plan is ACTIVE, else none
DecisionUpdate(status, list, dec) ==
    IF status = "ACTIVE" THEN Append(list, dec) ELSE list

\* RecordDecision: it returns the error of the Exec, which is nil when the
\* statement ran, whatever the number of rows it changed
RecordDecision(dec) ==
    /\ decideCalls < MaxDecisions
    /\ planStatus # "none"
    /\ decideCalls' = decideCalls + 1
    /\ \/ /\ decisions' = DecisionUpdate(planStatus, decisions, dec)
          /\ decideErr' = FALSE
       \/ /\ decisions' = decisions
          /\ decideErr' = TRUE
    /\ UNCHANGED <<storeVars, poolVars, queueVars, tasks, turnRows, cancelled,
                   procVars, planStatus, planTurns, taken, wpc, wrows,
                   extVars>>

NextPlan ==
    \/ \E n \in PlanNames : CreatePlan(n)
    \/ \E dec \in {"d1", "d2"} : RecordDecision(dec)
    \/ \E w \in Approvers : UpdatePlanProgress(w)
    \/ \E w \in Callers : SelectReady(w)
    \/ \E w \in Callers : ActivateTurn(w)

SpecPlan == Init /\ [][NextPlan]_vars

\* planCloseCmd: `UPDATE execution_plans SET status = 'COMPLETED' ... WHERE
\* name = $1 AND status = 'ACTIVE'`; the plan_turns rows are not touched
ClosePlan ==
    /\ planStatus = "ACTIVE"
    /\ planStatus' = "COMPLETED"
    /\ UNCHANGED <<storeVars, poolVars, queueVars, tasks, turnRows, cancelled,
                   procVars, planTurns, taken, wpc, wrows>>
    /\ UNCHANGED <<decideVars, extVars>>

\* the scheduler next to an operator who may close the plan by hand
NextPlanClose == NextPlan \/ ClosePlan

SpecPlanClose == Init /\ [][NextPlanClose]_vars

\* the run of queueReadyPlanTurns' query that returns its rows
SelectReadyRows(w) == SelectReady(w) /\ wrows'[w] = ReadyTurns(planTurns)

\* the scheduler while the store answers every statement
NextPlanLive ==
    \/ \E n \in PlanNames : CreatePlan(n)
    \/ \E dec \in {"d1", "d2"} : RecordDecision(dec)
    \/ \E w \in Approvers : UpdatePlanProgress(w)
    \/ \E w \in Callers : SelectReadyRows(w)
    \/ \E w \in Callers : ActivateTurn(w)

\* every caller of queueReadyPlanTurns runs on, and the proposal of every
\* task on the queue is approved in the end
SpecPlanLive ==
    /\ Init
    /\ [][NextPlanLive]_vars
    /\ WF_vars(\E w \in Approvers : UpdatePlanProgress(w))
    /\ \A w \in Callers : WF_vars(SelectReadyRows(w))
    /\ \A w \in Callers : WF_vars(ActivateTurn(w))


(***************************************************************************)
(* `turn start` and `turn end` of the command line, with the edits made    *)
(* to the source tree and to arch.md between them.                         *)
(***************************************************************************)
MaxEdits == 2

daemonVars == <<storeVars, poolVars, queueVars, cancelled, procVars,
                planStatus, planTurns, taken, wpc, wrows, decideVars>>
coreVars == <<daemonVars, tasks, turnRows>>
notTurn == <<coreVars, valVars, reviewVars, gardenVars, regionVars>>
notVal == <<coreVars, turnVars, reviewVars, gardenVars, regionVars>>

\* captureTreeSnapshot: the regions that have markers, each with the places
\* of its markers
captureTreeSnapshot(tree) ==
    [p \in {q \in SrcPaths : tree[q] # 0} |-> tree[p]]

\* the snapshot read back from the JSON column; {} is NULL
Unmarshal(col) == IF col = {} THEN {} ELSE col

HasDot(p) == \E i \in 1..Len(p) : p[i] = Dot
LastDot(p) == CHOOSE i \in 1..Len(p) : p[i] = Dot /\ \A j \in (i+1)..Len(p) : p[j] # Dot
ParentPath(p) == SubSeq(p, 1, LastDot(p) - 1)

\* ValidateArchNamespaces: entries of arch.md whose parent is not declared
ValidateArchNamespaces(arch) ==
    {<<"no parent", p>> : p \in {q \in arch : HasDot(q) /\ ParentPath(q) \notin arch}}

\* ValidateArchAlignment: hierarchy issues, marker warnings, regions of the
\* source missing from arch.md, entries of arch.md without markers
ValidateArchAlignment(arch, tree, warn) ==
    ValidateArchNamespaces(arch)
      \cup (IF warn THEN {<<"warning", <<>>>>} ELSE {})
      \cup {<<"not in arch.md", p>> : p \in {q \in SrcPaths : tree[q] # 0 /\ q \notin arch}}
      \cup {<<"no markers", p>> : p \in {q \in arch : tree[q] = 0}}

GateOpen(arch, tree, warn) == FALSE

\* the three checks of the gate of `turn end`; TRUE when one of them blocks
GateBlocks(arch, tree, warn) ==
    \/ ValidateArchAlignment(arch, tree, warn) # {}
    \/ warn
    \/ \E p \in DOMAIN captureTreeSnapshot(tree) : p \notin arch

\* an edit of one region's markers, of a marker that leaves a warning, or of
\* one entry of arch.md
EditFiles ==
    /\ edits < MaxEdits
    /\ edits' = edits + 1
    /\ \/ \E p \in SrcPaths : \E v \in {0} \cup Locs(p) :
             /\ v # srcTree[p]
             /\ srcTree' = [srcTree EXCEPT ![p] = v]
             /\ UNCHANGED <<srcWarnings, archPaths>>
       \/ /\ srcWarnings' = ~srcWarnings
          /\ UNCHANGED <<srcTree, archPaths>>
       \/ \E p \in SrcPaths :
             /\ archPaths' = IF p \in archPaths THEN archPaths \ {p}
                                                ELSE archPaths \cup {p}
             /\ UNCHANGED <<srcTree, srcWarnings>>
    /\ lastOp' = "edit"
    /\ UNCHANGED <<notTurn, turns, turnOrder, turnRegions, endErr>>

\* the ids GenerateTurnID can return: one that is taken, or the next free one
NewIds ==
    {t \in TurnIds : turns[t].present}
      \cup (IF turns["T1"].present THEN {"T2"} ELSE {"T1"})

\* turnStartCmd: the INSERT fails when the id is taken
TurnStart(id, scope) ==
    /\ IF turns[id].present
       THEN /\ lastOp' = "start failed"
            /\ UNCHANGED <<turns, turnOrder>>
       ELSE /\ turns' = [turns EXCEPT ![id] =
                           [present |-> TRUE, scope |-> scope,
                            status |-> "ACTIVE", scratchpad |-> "",
                            completed |-> FALSE,
                            tree_before |-> {captureTreeSnapshot(srcTree)},
                            tree_after |-> {}]]
            /\ turnOrder' = Append(turnOrder, id)
            /\ lastOp' = "start"
    /\ UNCHANGED <<notTurn, fsVars, turnRegions, endErr>>

ActiveTurns == {i \in 1..Len(turnOrder) : turns[turnOrder[i]].status = "ACTIVE"}

\* SELECT ... WHERE status = 'ACTIVE' ORDER BY created_at DESC LIMIT 1
MostRecentActive ==
    turnOrder[CHOOSE i \in ActiveTurns : \A j \in ActiveTurns : j <= i]

\* the action `turn end` derives for a region from the two snapshots
DiffAction(before, after, p) ==
    IF p \in DOMAIN after
    THEN IF before = {} \/ \A b \in before : p \notin DOMAIN b
         THEN "created" ELSE "modified"
    ELSE IF \E b \in before : p \in DOMAIN b THEN "deleted" ELSE "none"

\* the turn_regions rows after the upserts of `turn end` for turn t
RecordTurnRegions(rows, t, before, after) ==
    [k \in TurnIds \X SrcPaths |->
        IF k[1] = t /\ k[2] \in Regions /\ DiffAction(before, after, k[2]) # "none"
        THEN DiffAction(before, after, k[2])
        ELSE rows[k]]

\* turnEndCmd
TurnEnd(scratchpad, skipValidation, updateFails) ==
    /\ lastOp' = IF skipValidation THEN "end --skip-validation" ELSE "end"
    /\ IF scratchpad = ""
       THEN /\ endErr' = "scratchpad is required"
            /\ UNCHANGED <<turns, turnRegions>>
       ELSE IF ActiveTurns = {}
       THEN /\ endErr' = "no active turn found"
            /\ UNCHANGED <<turns, turnRegions>>
       ELSE IF ~skipValidation /\ GateBlocks(archPaths, srcTree, srcWarnings)
       THEN /\ endErr' = "validation failed"
            /\ UNCHANGED <<turns, turnRegions>>
       ELSE LET t == MostRecentActive
                after == captureTreeSnapshot(srcTree)
                before == Unmarshal(turns[t].tree_before)
            IN /\ turnRegions' = RecordTurnRegions(turnRegions, t, before, after)
               /\ IF updateFails
                  THEN /\ endErr' = "end turn"
                       /\ UNCHANGED turns
                  ELSE /\ endErr' = "ok"
                       /\ turns' = [turns EXCEPT ![t] =
                                      [@ EXCEPT !.status = "COMPLETED",
                                                !.scratchpad = scratchpad,
                                                !.completed = TRUE,
                                                !.tree_after = {after}]]
    /\ UNCHANGED <<notTurn, fsVars, turnOrder>>

NextTurn ==
    \/ EditFiles
    \/ \E id \in NewIds, scope \in Scopes : TurnStart(id, scope)
    \/ \E s \in {"", "notes"}, skip \in BOOLEAN, f \in BOOLEAN : TurnEnd(s, skip, f)

SpecTurn == Init /\ [][NextTurn]_vars

\* the INSERT INTO turns of queueTask and of CreatePlan: an ACTIVE turn of
\* the researcher role for a task of the queue, with no tree_before; the
\* error of an INSERT with a taken id is dropped
InsertQueuedTurn(id, scope) ==
    /\ ~turns[id].present
    /\ turns' = [turns EXCEPT ![id] =
                    [present |-> TRUE, scope |-> scope, status |-> "ACTIVE",
                     scratchpad |-> "", completed |-> FALSE,
                     tree_before |-> {}, tree_after |-> {}]]
    /\ turnOrder' = Append(turnOrder, id)
    /\ lastOp' = "queued"
    /\ UNCHANGED <<notTurn, fsVars, turnRegions, endErr>>

NextTurnQueue ==
    \/ NextTurn
    \/ \E id \in NewIds, scope \in Scopes : InsertQueuedTurn(id, scope)

\* the turn commands next to a Memorizer that inserts turns for its tasks
SpecTurnQueue == Init /\ [][NextTurnQueue]_vars


(***************************************************************************)
(* The validator called on its own, over the proposals a researcher can    *)
(* hand it and the assignments `concept assign` can add.                   *)
(***************************************************************************)
\* assignments `concept assign` is called with
AssignInputs ==
    {<<"B", PathA>>, <<"A", PathAC>>, <<"M", PathAB>>, <<"M", PathC>>}

\* conceptAssignCmd: INSERT ... SELECT from concepts and regions, so a path
\* without a regions row adds nothing
conceptAssign(c, r) ==
    /\ assignments' = IF r \in Regions THEN assignments \cup {<<c, r>>}
                                       ELSE assignments
    /\ UNCHANGED <<notVal, vpc, vIn, vConcepts, vOut>>

ValProp(turn, region, tr, added, api, mig, mrs) ==
    [id |-> "v", turn |-> turn, region |-> region, action |-> tr[3],
     current |-> tr[1], proposed |-> tr[2], added |-> added, modified |-> <<>>,
     deleted |-> <<>>, api |-> api, migration |-> mig,
     modifiedRegions |-> mrs, deferred |-> <<>>]

\* proposals that exercise tier 0 (turn scope and markers), and proposals
\* that pass it and exercise tier 1: every region, four transitions, three
\* sets of added syncs, four api blocks and three migration blocks
ValProposals ==
    {ValProp(t, r, <<"", "", "document">>, <<>>, NoRemovals, NoMigration, m) :
        t \in {NoTurn, "t2"},
        r \in {PathA, PathAB, PathAC, PathC},
        m \in {<<>>, <<[path |-> PathAB, file |-> "x.go"]>>}}
      \cup
    {ValProp(NoTurn, r, tr, ad, api, mig, <<>>) :
        r \in {PathA, PathAB, PathAC, PathC},
        tr \in {<<"", "", "document">>,
                <<"draft", "implementation", "implement">>,
                <<"implementation", "testing", "test">>,
                <<"draft", "testing", "skip">>},
        ad \in {<<>>,
                <<Sync("S2", <<Ref("B", "store")>>, <<Where("B", {"rows"})>>,
                       <<Ref("A", "query")>>)>>,
                <<Sync("S2", <<Ref("A", "missing")>>, <<>>, <<Ref("A", "index")>>)>>},
        api \in {NoApi, NoRemovals,
                 [present |-> TRUE, removals |-> <<"query">>],
                 [present |-> TRUE, removals |-> <<"missing", "index">>]},
        mig \in {NoMigration,
                 [present |-> TRUE, operations |-> <<"ADD_COLUMN">>],
                 [present |-> TRUE, operations |-> <<"ADD_COLUMN", "DROP_COLUMN">>]}}

\* Validate, called for proposal p while query qerr of the store fails
RunValidate(p, qerr) ==
    /\ vpc = "idle"
    /\ vpc' = "done"
    /\ vIn' = [p |-> p, qerr |-> qerr]
    /\ vConcepts' = IF qerr = "concepts" THEN <<>>
                    ELSE [i \in 1..Len(GetConceptsForRegion(p.region, assignments)) |->
                            GetConceptsForRegion(p.region, assignments)[i].name]
    /\ vOut' = Validate(p, Regions, assignments, syncs, syncRefs, qerr)
    /\ UNCHANGED <<notVal, assignments>>

\* the caller takes the result
ValidateReturns ==
    /\ vpc = "done"
    /\ vpc' = "idle"
    /\ vIn' = NoInput
    /\ vConcepts' = <<>>
    /\ vOut' = NoOutput
    /\ UNCHANGED <<notVal, assignments>>

NextValidate ==
    \/ \E a \in AssignInputs : conceptAssign(a[1], a[2])
    \/ \E p \in ValProposals, qerr \in {"none"} \cup (QueryErrs \ {"fetch"}) :
          RunValidate(p, qerr)
    \/ ValidateReturns

SpecValidate == Init /\ [][NextValidate]_vars


(***************************************************************************)
(* Tier 3: the review loop of the processor, for a proposal that passed    *)
(* tiers 0 and 1 and requires the review.                                  *)
(***************************************************************************)
notReview == <<daemonVars, turnRows, turnVars, valVars, gardenVars, regionVars>>

\* a loop that would allow one more audit
MoreIterations == 3 + 1

maxIterations == 3

\* concerns llmAudit can raise; "" is a satisfied auditor
Concerns == {"c1", "c2"}

\* the proposal under review
Reviewed == "p1"

ReviewTask(c) ==
    [turn |-> Reviewed, region |-> <<>>, type |-> "review_response",
     review |-> c]

\* fmt.Sprintf("ESCALATED TO HUMAN (Tier %d, %d iterations)\n%s...", ...)
EscalationBriefing(c) ==
    <<"ESCALATED TO HUMAN", "(Tier ", 3, ", ", c.iteration, " iterations)", c.concern>>

\* processProposal reaches tier 3 and reviewLoop enters its loop
ReviewStart ==
    /\ rpc = "idle"
    /\ rvIter' = 0
    /\ rpc' = IF 0 < maxIterations THEN "audit" ELSE "approve"
    /\ UNCHANGED <<notReview, tasks, rvAudits, rvComment, rvRevision, rvStatus, rvReason>>

\* llmAudit and the comment built from its concern
Audit(concern) ==
    /\ rpc = "audit"
    /\ rvAudits' = rvAudits + 1
    /\ IF concern = ""
       THEN /\ rpc' = "approve"
            /\ rvComment' = NoComment
       ELSE IF rvIter = maxIterations - 1
       THEN /\ rpc' = "escalate"
            /\ rvComment' = [severity |-> "escalate_human",
                             iteration |-> rvIter + 1, concern |-> concern]
       ELSE /\ rpc' = "request"
            /\ rvComment' = [severity |-> "request_changes",
                             iteration |-> rvIter + 1, concern |-> concern]
    /\ UNCHANGED <<notReview, tasks, rvIter, rvRevision, rvStatus, rvReason>>

\* requestChanges: XAdd to agent_tasks, its result is not looked at
requestChanges(added) ==
    /\ rpc = "request"
    /\ tasks' = IF added THEN Append(tasks, ReviewTask(rvComment)) ELSE tasks
    /\ rpc' = "wait"
    /\ UNCHANGED <<notReview, rvIter, rvAudits, rvComment, rvRevision, rvStatus, rvReason>>

\* waitForRevision, then the next round of the loop
waitForRevision(err) ==
    /\ rpc = "wait"
    /\ IF err
       THEN /\ rvComment' = [rvComment EXCEPT !.severity = "escalate_human"]
            /\ rpc' = "escalate"
            /\ UNCHANGED <<rvIter, rvRevision>>
       ELSE /\ rvRevision' = rvRevision + 1
            /\ rvIter' = rvIter + 1
            /\ rpc' = IF rvIter + 1 < maxIterations THEN "audit" ELSE "approve"
            /\ UNCHANGED rvComment
    /\ UNCHANGED <<notReview, tasks, rvAudits, rvStatus, rvReason>>

\* escalateToHuman
escalateToHuman(updateFails) ==
    /\ rpc = "escalate"
    /\ rpc' = "done"
    /\ IF updateFails
       THEN UNCHANGED <<rvStatus, rvReason>>
       ELSE /\ rvStatus' = "PENDING"
            /\ rvReason' = EscalationBriefing(rvComment)
    /\ UNCHANGED <<notReview, tasks, rvIter, rvAudits, rvComment, rvRevision>>

\* the review raised no concern: the proposal goes on to approveProposal
ReviewApproves(commitFails) ==
    /\ rpc = "approve"
    /\ rpc' = "done"
    /\ rvStatus' = IF commitFails THEN rvStatus ELSE "APPROVED"
    /\ UNCHANGED <<notReview, tasks, rvIter, rvAudits, rvComment, rvRevision, rvReason>>

NextReview ==
    \/ ReviewStart
    \/ \E c \in Concerns \cup {""} : Audit(c)
    \/ \E added \in BOOLEAN : requestChanges(added)
    \/ \E err \in BOOLEAN : waitForRevision(err)
    \/ \E f \in BOOLEAN : escalateToHuman(f)
    \/ \E f \in BOOLEAN : ReviewApproves(f)

SpecReview == Init /\ [][NextReview]_vars


(***************************************************************************)
(* The Gardener: RunGardener over the turns, the regions and the syncs of  *)
(* the store and the markers of the source tree.                           *)
(***************************************************************************)
notGarden == <<daemonVars, turnVars, valVars, reviewVars, regionVars>>

GardenFinding(region, category, mechanical) ==
    [region |-> region, category |-> category, mechanical |-> mechanical]

\* scratchpad LIKE '%TODO%'
HasTodo(scratchpad) == scratchpad \in {"TODO later"}

\* findStaleTodos: completed turns with a TODO in the scratchpad that are
\* older than seven days (old) and were not followed up, in the order of
\* the rows
findStaleTodos(old) ==
    LET stale(t) == /\ turns[t].status = "COMPLETED"
                    /\ HasTodo(turns[t].scratchpad)
                    /\ t \in old
        rows == SelectSeq(turnOrder, stale)
    IN  [i \in 1..Len(rows) |->
            GardenFinding(turns[rows[i]].scope, "stale_todo", FALSE)]

RegionList == <<PathA, PathAB, PathAC>>

HasMarkers(r) == r \in SrcPaths /\ srcTree[r] # 0

\* findOrphanedRegions: regions rows that are not deprecated and have no
\* markers in the source tree
findOrphanedRegions ==
    LET orphan(r) == lifecycle[r] # "deprecated" /\ ~HasMarkers(r)
        rows == SelectSeq(RegionList, orphan)
    IN  [i \in 1..Len(rows) |-> GardenFinding(rows[i], "orphaned_region", FALSE)]

\* the when rows of enabled syncs, which findSyncDrift reports when flow_log
\* shows the action completing and the sync never firing
DriftCandidates ==
    {x \in syncRefs : x[4] = "when" /\ syncs[x[1]].present /\ syncs[x[1]].enabled}

\* findSyncDrift, for the candidates flow_log singles out
findSyncDrift(drifting) ==
    IF drifting = {} THEN <<>>
    ELSE <<GardenFinding(<<>>, "sync_drift", FALSE)>>

\* a sweep that would queue a task for every finding of every run
QueueAll(dryRun, f) == TRUE

\* a finding is queued only outside dry mode and only when it is mechanical
ShouldQueue(dryRun, f) == ~dryRun /\ f.mechanical

\* RunGardener; qerr names the finder whose query fails
RunGardener(dryRun, old, drifting, qerr) ==
    /\ gpc = "idle"
    /\ gpc' = "returned"
    /\ gDry' = dryRun
    /\ IF qerr # "none"
       THEN /\ gErr' = TRUE
            /\ gFindings' = <<>>
            /\ UNCHANGED <<tasks, turnRows>>
       ELSE LET findings == findStaleTodos(old) \o findOrphanedRegions
                               \o findSyncDrift(drifting)
                keep(f) == ShouldQueue(dryRun, f)
                queued == SelectSeq(findings, keep)
            IN  /\ gErr' = FALSE
                /\ gFindings' = findings
                /\ Len(tasks) + Len(queued) <= MaxTasks
                /\ \E ids \in [1..Len(queued) -> GenIds] :
                      /\ turnRows' = turnRows \cup {ids[i] : i \in 1..Len(ids)}
                      /\ tasks' = tasks \o
                            [i \in 1..Len(ids) |->
                                [turn |-> ids[i], region |-> queued[i].region,
                                 type |-> "gardener"]]
    /\ UNCHANGED notGarden

\* the caller prints the findings
GardenerReturns ==
    /\ gpc = "returned"
    /\ gpc' = "idle"
    /\ gDry' = FALSE
    /\ gFindings' = <<>>
    /\ gErr' = FALSE
    /\ UNCHANGED <<notGarden, tasks, turnRows>>

NextGarden ==
    \/ \E id \in NewIds, scope \in Scopes : TurnStart(id, scope)
    \/ \E f \in BOOLEAN : TurnEnd("TODO later", TRUE, f)
    \/ \E dry \in BOOLEAN, old \in SUBSET TurnIds, drifting \in SUBSET DriftCandidates,
          qerr \in {"none", "stale", "orphan", "drift"} :
          RunGardener(dry, old, drifting, qerr)
    \/ GardenerReturns

SpecGarden == Init /\ [][NextGarden]_vars

\* ---------------------------------------------------------------------
\* Region markers in one file: ScanFile, ScaffoldRegion and the reading of
\* arch.md.  A file is a sequence of lines that end with a newline; a line
\* is a sequence of words separated by blanks; a word is a text, or a tag
\* "@region:" or "@endregion:" with the text that follows it in the word.
\* ---------------------------------------------------------------------

MaxLines == 3

notRegion == <<coreVars, turnVars, valVars, reviewVars, gardenVars>>

PathABC == <<97, Dot, 98, Dot, 99>>

W(text) == [tag |-> "", text |-> text]
Tagged(tag, path) == [tag |-> tag, text |-> path]

\* a token longer than the buffer of bufio.Scanner
LongWord == [tag |-> "long", text |-> <<>>]
IsLong(line) == \E i \in 1..Len(line) : line[i].tag = "long"

\* file extensions: "//", "#", "--", "/* */", "<!-- -->" and one the table
\* does not know
Exts == {".go", ".py", ".sql", ".css", ".html", ".txt"}

GetCommentPrefix(ext) ==
    IF ext = ".html" THEN <<60, 33, 45, 45>>
    ELSE IF ext = ".go" THEN <<47, 47>>
    ELSE IF ext = ".py" THEN <<35>>
    ELSE IF ext = ".sql" THEN <<45, 45>>
    ELSE IF ext = ".css" THEN <<47, 42>>
    ELSE <<47, 47>>

\* GetRegionTag and GetEndRegionTag, which differ in the tag only
GetTag(tag, path, ext) ==
    IF ext = ".html"
    THEN <<W(<<60, 33, 45, 45>>), Tagged(tag, path), W(<<45, 45, 62>>)>>
    ELSE IF GetCommentPrefix(ext) = <<47, 42>>
    THEN <<W(<<47, 42>>), Tagged(tag, path), W(<<42, 47>>)>>
    ELSE <<W(GetCommentPrefix(ext)), Tagged(tag, path)>>

\* line[idx+len(marker):], word by word; a later tag is part of its word
RestOfLine(line, idx) ==
    [k \in 1..(Len(line) - idx + 1) |->
        IF k = 1 \/ line[idx + k - 1].tag = "" THEN line[idx + k - 1].text
        ELSE <<64>> \o line[idx + k - 1].text]

\* strings.TrimSuffix(rest, "-->") and then strings.TrimSuffix(rest, "*/"),
\* which finds a blank in its way once "-->" was cut off
TrimClosers(rest) ==
    IF rest[Len(rest)] = <<45, 45, 62>> THEN SubSeq(rest, 1, Len(rest) - 1)
    ELSE IF rest[Len(rest)] = <<42, 47>> THEN SubSeq(rest, 1, Len(rest) - 1)
    ELSE rest

\* strings.Fields(rest)[0], <<>> when there is no field
FirstField(rest) ==
    LET nonEmpty(t) == t # <<>>
    IN  IF SelectSeq(rest, nonEmpty) = <<>> THEN <<>> ELSE SelectSeq(rest, nonEmpty)[1]

\* extractRegionPath: the first word after the first "@tag:" of the line,
\* <<>> when there is none
extractRegionPath(line, tag) ==
    IF \A i \in 1..Len(line) : line[i].tag # tag THEN <<>>
    ELSE FirstField(TrimClosers(RestOfLine(line,
            CHOOSE i \in 1..Len(line) :
               line[i].tag = tag /\ \A j \in 1..(i - 1) : line[j].tag # tag)))

\* the loop of ScanFile from line n on; open holds, per open path, the
\* index of its marker
RECURSIVE ScanLines(_, _, _)
ScanLines(lines, n, st) ==
    IF n > Len(lines) THEN st
    ELSE IF IsLong(lines[n]) THEN [st EXCEPT !.err = TRUE]
    ELSE LET rp == extractRegionPath(lines[n], "region")
             s1 == IF rp = <<>> THEN st
                   ELSE [st EXCEPT
                           !.markers = Append(@, [path |-> rp, start |-> n, end |-> 0]),
                           !.open = {o \in @ : o[1] # rp} \cup {<<rp, Len(st.markers) + 1>>}]
             ep == extractRegionPath(lines[n], "endregion")
             hit == {o \in s1.open : o[1] = ep}
             s2 == IF ep = <<>> THEN s1
                   ELSE IF hit # {}
                   THEN LET o == CHOOSE x \in hit : TRUE
                        IN  [s1 EXCEPT !.markers[o[2]].end = n, !.open = @ \ hit]
                   ELSE [s1 EXCEPT !.warnings = Append(@,
                           [kind |-> "without matching", line |-> n, path |-> ep])]
         IN  ScanLines(lines, n + 1, s2)

Scanned(lines) == ScanLines(lines, 1, [markers |-> <<>>, warnings |-> <<>>, open |-> {}, err |-> FALSE])

\* the orders in which the loop over the map openRegions can visit it
Orders(S) == {f \in [1..Cardinality(S) -> S] : \A i, j \in DOMAIN f : f[i] = f[j] => i = j}

\* a ScaffoldRegion that would not look for the markers first
NeverHasMarkers(file, regionPath) == FALSE

\* FileHasRegionMarkers through ScanFile: false when the scan fails
HasRegionMarkers(file, regionPath) ==
    /\ file.exists
    /\ LET st == Scanned(file.lines)
       IN  ~st.err /\ \E i \in 1..Len(st.markers) : st.markers[i].path = regionPath

\* ParseArchMdEntries from line n on: one entry per path, at its first line
RECURSIVE ParseEntries(_, _, _)
ParseEntries(lines, n, entries) ==
    IF n > Len(lines) THEN entries
    ELSE LET path == extractRegionPath(lines[n], "region")
             seen == {entries[i].path : i \in 1..Len(entries)}
         IN  ParseEntries(lines, n + 1,
                IF path # <<>> /\ path \notin seen
                THEN Append(entries, [path |-> path, line |-> n])
                ELSE entries)

ParseArchMdEntries(file) == IF file.exists THEN ParseEntries(file.lines, 1, <<>>) ELSE <<>>

\* a check that would accept any declared ancestor in place of the parent
AncestorDeclared(pathSet, path) ==
    \E q \in pathSet : q # path /\ IsAncestorOrSelf(q \o <<Dot>>, path)

\* pathSet[parent]
ParentDeclared(pathSet, path) == ParentPath(path) \in pathSet

\* the loop of ValidateArchNamespaces over the entries
NamespaceIssues(entries) ==
    LET pathSet == {entries[i].path : i \in 1..Len(entries)}
        bad(e) == HasDot(e.path) /\ ~ParentDeclared(pathSet, e.path)
        rows == SelectSeq(entries, bad)
    IN  [i \in 1..Len(rows) |->
            [kind |-> "no parent", path |-> rows[i].path, line |-> rows[i].line]]

\* the lines a file is written with, in the "#" style of arch.md
InLines ==
    {<<LongWord>>}
       \cup {GetTag("region", path, ".py") : path \in {PathA, PathAB, PathABC}}
       \cup {GetTag("endregion", PathA, ".py")}

\* an editor creates the file
WriteFile(lines) ==
    /\ ~rgFile.exists
    /\ rgFile' = [exists |-> TRUE, lines |-> lines]
    /\ rgFresh' = FALSE
    /\ rgScaffolded' = {}
    /\ rgOp' = "write"
    /\ rgArg' = <<>>
    /\ rgOut' = NoScan
    /\ UNCHANGED notRegion

RemoveFile ==
    /\ rgFile.exists
    /\ rgFile' = [exists |-> FALSE, lines |-> <<>>]
    /\ rgFresh' = FALSE
    /\ rgScaffolded' = {}
    /\ rgOp' = "remove"
    /\ rgArg' = <<>>
    /\ rgOut' = NoScan
    /\ UNCHANGED notRegion

\* ScanFile; a file that cannot be opened returns the error alone
ScanFile ==
    /\ rgOp' = "scan"
    /\ rgArg' = <<>>
    /\ IF ~rgFile.exists
       THEN rgOut' = [NoScan EXCEPT !.err = TRUE]
       ELSE LET st == Scanned(rgFile.lines)
            IN  \E ord \in Orders(st.open) :
                   rgOut' = [markers |-> st.markers,
                             warnings |-> st.warnings \o
                                [i \in 1..Len(ord) |->
                                    [kind |-> "never closed",
                                     line |-> st.markers[ord[i][2]].start,
                                     path |-> ord[i][1]]],
                             err |-> st.err,
                             issues |-> <<>>]
    /\ UNCHANGED <<rgFile, rgFresh, rgScaffolded>>
    /\ UNCHANGED notRegion

\* ScaffoldRegion(filename, regionPath) for a file name with extension ext
ScaffoldRegion(ext, regionPath) ==
    LET startTag == GetTag("region", regionPath, ext)
        endTag == GetTag("endregion", regionPath, ext)
    IN  /\ IF ~rgFile.exists
           THEN /\ rgFile' = [exists |-> TRUE,
                              lines |-> IF ext = ".go"
                                        THEN <<startTag, <<W(<<112>>), W(<<115>>)>>, <<>>, endTag>>
                                        ELSE <<startTag, <<>>, endTag>>]
                /\ rgFresh' = TRUE
                /\ rgScaffolded' = {regionPath}
           ELSE /\ IF HasRegionMarkers(rgFile, regionPath)
                   THEN rgFile' = rgFile
                   ELSE /\ Len(rgFile.lines) <= MaxLines + 3
                        /\ rgFile' = [rgFile EXCEPT
                                        !.lines = @ \o <<<<>>, startTag, <<>>, endTag>>]
                /\ rgFresh' = rgFresh
                /\ rgScaffolded' = rgScaffolded \cup {regionPath}
        /\ rgOp' = "scaffold"
        /\ rgArg' = regionPath
        /\ rgOut' = NoScan
        /\ UNCHANGED notRegion

\* ValidateArchNamespaces with the file as arch.md; readErr is a failure of
\* os.ReadFile other than a missing file
CheckArchNamespaces(readErr) ==
    /\ readErr => rgFile.exists
    /\ rgOp' = "arch"
    /\ rgArg' = <<>>
    /\ rgOut' = IF readErr
                THEN [NoScan EXCEPT !.err = TRUE,
                        !.issues = <<[kind |-> "cannot read", path |-> <<>>, line |-> 0]>>]
                ELSE [NoScan EXCEPT !.issues = NamespaceIssues(ParseArchMdEntries(rgFile))]
    /\ UNCHANGED <<rgFile, rgFresh, rgScaffolded>>
    /\ UNCHANGED notRegion

NextRegion ==
    \/ \E n \in 0..MaxLines : \E lines \in [1..n -> InLines] : WriteFile(lines)
    \/ RemoveFile
    \/ ScanFile
    \/ \E ext \in {".go", ".css", ".html"}, p \in {PathA, PathAB} : ScaffoldRegion(ext, p)
    \/ \E readErr \in BOOLEAN : CheckArchNamespaces(readErr)

SpecRegion == Init /\ [][NextRegion]_vars


(***************************************************************************)
(* Properties of the proposal processor, checked under Spec.               *)
(***************************************************************************)
\* the consumer is between the grant of its lock and its return
Holding(p) == pc[p] \in {"fetch", "reject", "approve", "post", "unlock"}

\* the consumer is in the validate-and-apply section
InSection(p) == pc[p] \in {"fetch", "reject", "approve", "post"}

\* the consumer is about to leave the named position
Leaves(p, at) == pc[p] = at /\ pc'[p] # at

\* C1: the validate-and-apply sections of two consumers working on the
\* same region path never overlap.
C1_MutualExclusion ==
    \A p, q \in Procs :
        (p # q /\ InSection(p) /\ InSection(q)) => Msg(p).path # Msg(q).path

\* the mutations proposal P asks for are all in the store
Applied(P) ==
    /\ propStatus[P.id] = "APPROVED"
    /\ P.proposed # "" => lifecycle[P.region] = P.proposed
    /\ \A sc \in SeqRange(P.added) :
          /\ syncs[sc.name] = SyncRow(sc)
          /\ RefsOf(syncRefs, sc.name) # {}
    /\ \A sc \in SeqRange(P.modified) :
          syncs[sc.name].present =>
             /\ syncs[sc.name].when = sc.when
             /\ syncs[sc.name].then = sc.then
             /\ syncs[sc.name].where = sc.where
    /\ \A n \in SeqRange(P.deleted) :
          ~syncs[n].present /\ RefsOf(syncRefs, n) = {}

\* C2: a run of approveProposal leaves the store with every mutation of
\* the proposal applied, or exactly as it found it.
C2_ApproveAtomic ==
    [][\A p \in Procs :
          Leaves(p, "approve") =>
             \/ Applied(Cur(p))'
             \/ UNCHANGED <<propStatus, lifecycle, syncs, syncRefs>>]_vars

\* an approval committed several mutations at once
C2_Witness ==
    /\ propStatus["p1"] = "APPROVED"
    /\ lifecycle[PathAB] = "implementation"
    /\ syncs["S2"].present
    /\ Cardinality(RefsOf(syncRefs, "S2")) > 1

\* C3: a proposal becomes APPROVED, and the lifecycle and the syncs change,
\* only in a run whose validation passed; a run whose validation did not
\* pass changes neither lifecycle nor syncs and sets the proposal to
\* REJECTED unless the store refuses the update.
C3_ApprovedOnlyIfPassed ==
    [][/\ \A id \in PropIds :
             (propStatus[id] # "APPROVED" /\ propStatus'[id] = "APPROVED") =>
                \E p \in Procs : /\ Leaves(p, "approve")
                                 /\ Msg(p).pid = id
                                 /\ res[p].passed
       /\ <<lifecycle, syncs, syncRefs>>' # <<lifecycle, syncs, syncRefs>> =>
             \E p \in Procs : Leaves(p, "approve") /\ res[p].passed
       /\ \A p \in Procs :
             /\ pc[p] \in {"approve", "post"} => res[p].passed
             /\ pc[p] = "reject" => ~res[p].passed
             /\ Leaves(p, "reject") =>
                   /\ UNCHANGED <<lifecycle, syncs, syncRefs>>
                   /\ \/ propStatus'[Msg(p).pid] = "REJECTED"
                      \/ perr'[p]]_vars

\* one proposal was approved and another one rejected
C3_Witness ==
    /\ propStatus["p1"] = "APPROVED"
    /\ propStatus["p3"] = "REJECTED"
    /\ syncs["S1"].present

\* C4: every enabled sync of the store references only actions that the
\* spec of the concept it names declares.
C4_EnabledSyncsKnowTheirActions ==
    \A n \in SyncNames :
        (syncs[n].present /\ syncs[n].enabled) =>
           /\ \A w \in SeqRange(syncs[n].when) : ActionExists(w.concept, w.action)
           /\ \A t \in SeqRange(syncs[n].then) : ActionExists(t.concept, t.action)

\* an approval changed the syncs, and the proposal adding a sync on an
\* action that does not exist was rejected for it
C4_Witness ==
    /\ propStatus["p2"] = "APPROVED"
    /\ propStatus["p3"] = "REJECTED"
    /\ propCode["p3"] = -3

\* the references a sync declares: one per when action, one per then
\* action, one per where field
DeclaredRefs(sc) ==
    {<<sc.name, sc.when[i].concept, sc.when[i].action, "when">> :
        i \in 1..Len(sc.when)}
    \cup {<<sc.name, sc.then[i].concept, sc.then[i].action, "then">> :
            i \in 1..Len(sc.then)}
    \cup {<<sc.name, sc.where[i[1]].concept, i[2], "where">> :
            i \in {j \in (1..Len(sc.where)) \X {"items", "rows"} :
                      j[2] \in sc.where[j[1]].fields}}

\* C5: when an approval commits, the sync_refs rows of every sync the
\* proposal adds or modifies are exactly the references of its clauses.
C5_RefsMatchClauses ==
    [][\A p \in Procs :
          (Leaves(p, "approve") /\ propStatus'[Msg(p).pid] = "APPROVED") =>
             \A sc \in SeqRange(Cur(p).added \o Cur(p).modified) :
                RefsOf(syncRefs', sc.name) = DeclaredRefs(sc)]_vars

\* C6: every entry of the stream is handed to processProposal at most once
\* and by one consumer only, entries are handed out in order with none
\* skipped, and an entry stays pending in the group until it is
\* acknowledged after its run.
C6_ExactlyOnce ==
    /\ lastDelivered <= Len(stream)
    /\ \A i \in 1..MaxSubmit : runs[i] = IF i <= lastDelivered THEN 1 ELSE 0
    /\ \A p, q \in Procs : (p # q /\ cur[p] > 0) => cur[p] # cur[q]
    /\ pel \cup acked = 1..lastDelivered
    /\ pel \cap acked = {}
    /\ \A p \in Procs : cur[p] > 0 => cur[p] \in pel

\* two consumers took one entry each and both entries were acknowledged
C6_Witness ==
    /\ Len(stream) > 1
    /\ acked = 1..Len(stream)
    /\ \A i \in 1..Len(stream) : propStatus[stream[i].pid] \in {"APPROVED", "REJECTED"}

\* C7: only the message of a proposal whose outcome was persisted is
\* acknowledged; after an infrastructure error the message stays pending.
C7_AckOnlyPersisted ==
    \A i \in acked : propStatus[stream[i].pid] \in {"APPROVED", "REJECTED"}

\* C8: once the processing of a proposal has returned, no session holds the
\* advisory lock taken for it.
C8_ReleasedOnReturn ==
    \A k \in LockKeys :
        (\E c \in Conns : locks[c][k] > 0) =>
            \E p \in Procs : Holding(p) /\ Key(p) = k

(***************************************************************************)
(* Properties of the plan scheduler, checked under SpecPlan.               *)
(***************************************************************************)
\* the number of tasks pushed for turn t
Pushed(q, t) == Cardinality({i \in 1..Len(q) : q[i].turn = t})

\* C9: a plan-turn is set to active and pushed onto the task queue only
\* when it is pending and every id of its depends_on names a plan-turn of
\* the plan that is completed; so a turn depending on another turn of the
\* plan is not enqueued before that turn is completed.
C9_EnqueuedOnlyWhenReady ==
    [][\A t \in GenIds :
          (\/ Pushed(tasks', t) > Pushed(tasks, t)
           \/ planTurns[t].status # "active" /\ planTurns'[t].status = "active")
          => /\ planTurns[t].status = "pending"
             /\ \A d \in planTurns[t].deps :
                   /\ d \in GenIds
                   /\ planTurns[d].present
                   /\ planTurns[d].status = "completed"]_vars

\* C10: the status of a plan-turn changes only from pending to active and
\* from active to completed.
C10_StatusMovesForward ==
    [][\A t \in GenIds :
          (planTurns[t].present /\ planTurns'[t].status # planTurns[t].status)
          => <<planTurns[t].status, planTurns'[t].status>> \in
                {<<"pending", "active">>, <<"active", "completed">>}]_vars

\* every plan-turn of the plan is completed
AllTurnsCompleted ==
    \A t \in GenIds : planTurns[t].present => planTurns[t].status = "completed"

C12_DecisionOnlyWhenActive ==
    [][decideCalls' # decideCalls =>
          IF planStatus = "ACTIVE"
          THEN decideErr' \/ Len(decisions') = Len(decisions) + 1
          ELSE decideErr' /\ decisions' = decisions]_vars


(***************************************************************************)
(* Properties of `turn start` and `turn end`, checked under SpecTurn.      *)
(***************************************************************************)
\* what the gate is there to find: an entry of arch.md without its parent, a
\* marker warning, a region of the source that arch.md does not declare
GateIssue ==
    \/ ValidateArchNamespaces(archPaths) # {}
    \/ srcWarnings
    \/ \E p \in SrcPaths : srcTree[p] # 0 /\ p \notin archPaths

\* C13: when `turn end` runs its validation gate on an ACTIVE turn and there
\* is a hierarchy violation, a marker warning or an undeclared region, the
\* command returns an error and writes nothing: the turns rows (status,
\* scratchpad, tree_after, completion) and the turn_regions rows are as
\* before, so the turn is still ACTIVE and can be ended again
C13_GateBlocksTurnEnd ==
    [][(lastOp' = "end" /\ ActiveTurns # {} /\ GateIssue) =>
          /\ endErr' \in {"validation failed", "scratchpad is required"}
          /\ turns' = turns
          /\ turnRegions' = turnRegions
          /\ turns'[MostRecentActive].status = "ACTIVE"]_vars

C13_Witness ==
    /\ lastOp = "end"
    /\ endErr = "validation failed"
    /\ GateIssue
    /\ ActiveTurns # {}
    /\ turns[MostRecentActive].tree_after = {}
    /\ \A p \in SrcPaths : turnRegions[<<MostRecentActive, p>>] = "none"

\* C14: a `turn end` that succeeds right after the `turn start` of its turn,
\* with no edit in between, stores a tree_after equal to tree_before and
\* leaves the turn without turn_regions rows
C14_EmptyTurnNoRows ==
    [][(lastOp = "start" /\ lastOp' \in {"end", "end --skip-validation"}
          /\ endErr' = "ok") =>
          /\ turns'[MostRecentActive].tree_after = turns[MostRecentActive].tree_before
          /\ \A p \in SrcPaths : turnRegions'[<<MostRecentActive, p>>] = "none"]_vars


(***************************************************************************)
(* Properties of the validator, checked under SpecValidate.                *)
(***************************************************************************)
\* a step in which Validate runs
Validates == vpc = "idle" /\ vpc' = "done"

\* C15: every detail of a validation result that did not pass tells how to
\* fix it: its fix field is not empty
C15_FailedDetailHasFix ==
    \A i \in 1..Len(vOut.result.details) :
        ~vOut.result.details[i].passed => vOut.result.details[i].fix # ""

C15_Witness ==
    /\ vpc = "done"
    /\ vOut.result.code = -1
    /\ \E i \in 1..Len(vOut.result.details) :
          /\ ~vOut.result.details[i].passed
          /\ vOut.result.details[i].fix # ""

RECURSIVE Segments(_, _, _)
\* the labels of a path: the pieces between its dots
Segments(p, i, seg) ==
    IF i > Len(p) THEN <<seg>>
    ELSE IF p[i] = Dot THEN <<seg>> \o Segments(p, i + 1, <<>>)
    ELSE Segments(p, i + 1, Append(seg, p[i]))

Labels(p) == Segments(p, 1, <<>>)

\* concepts assigned to the region or to a path whose labels begin its labels
Governing(path, rows) ==
    {a[1] : a \in {x \in rows : IsPrefix(Labels(x[2]), Labels(path))}}

\* tier 1 was reached and answered
Tier1Ran(out) == ~out.err /\ out.result.tier = 1

\* C16: when the proposal declares a current and a proposed state and tier 1
\* runs, the result has code -2 exactly when no governing concept has the
\* transition (current, proposed, action) in its state machine
C16_LegalInSomeConcept ==
    [][(Validates /\ Tier1Ran(vOut') /\ vIn'.p.current # "" /\ vIn'.p.proposed # "") =>
          (vOut'.result.code = -2 <=>
             ~\E c \in Governing(vIn'.p.region, assignments) :
                  <<vIn'.p.current, vIn'.p.proposed, vIn'.p.action>>
                     \in ConceptRow(c).transitions)]_vars

\* C17: the concepts a run of Validate collects for the region of its
\* proposal are the concepts assigned to the region or to one of its
\* ancestors, and no others
C17_GoverningIsAncestorUnion ==
    [][(Validates /\ vIn'.qerr # "concepts") =>
          SeqRange(vConcepts') = Governing(vIn'.p.region, assignments)]_vars

C17_Witness ==
    /\ vpc = "done"
    /\ vIn.p.region = PathAB
    /\ vConcepts = <<"A", "B">>
    /\ <<"A", PathAC>> \in assignments
    /\ <<"M", PathAB>> \notin assignments

\* the removed actions of the proposal that a sync_refs row of an enabled
\* sync names
Orphaning(p) ==
    {a \in SeqRange(p.api.removals) :
        \E x \in syncRefs : x[3] = a /\ syncs[x[1]].present /\ syncs[x[1]].enabled}

\* C18: when tier 1 reaches its check of the removals (the checks before it
\* passed) and the proposal removes an action that an enabled sync
\* references, the result does not pass and has code -4
C18_OrphaningRemovalFails ==
    [][(Validates /\ Tier1Ran(vOut') /\ vOut'.result.code \notin {-1, -2, -3}
          /\ vIn'.p.api.present /\ Orphaning(vIn'.p) # {}) =>
          (~vOut'.result.passed /\ vOut'.result.code = -4)]_vars


(***************************************************************************)
(* Properties of the tier 3 review, checked under SpecReview.              *)
(***************************************************************************)
\* the review_response tasks pushed for the proposal under review
ReviewTasks == {i \in 1..Len(tasks) : tasks[i].type = "review_response"}

\* the auditor raised a concern in its third audit
ThirdConcern == rvAudits = 3 /\ rvComment.concern # ""

Unmarked == {r \in Regions : r \notin SrcPaths \/ srcTree[r] = 0}

\* C20: a run of RunGardener in dry mode changes nothing: no task is pushed,
\* no turns row is inserted, the store, the streams and the source tree are
\* as before; a run that succeeds returns the findings, among them one
\* orphaned_region finding for each region without markers
C20_DryRunHasNoEffect ==
    [][(gpc = "idle" /\ gpc' = "returned" /\ gDry') =>
          /\ tasks' = tasks
          /\ turnRows' = turnRows
          /\ turns' = turns
          /\ turnRegions' = turnRegions
          /\ UNCHANGED <<storeVars, queueVars, fsVars, assignments, planStatus,
                         planTurns, decisions, rvStatus, rvReason>>
          /\ ~gErr' =>
                {f.region : f \in {g \in SeqRange(gFindings') :
                                      g.category = "orphaned_region"}} = Unmarked]_vars

C20_Witness ==
    /\ gpc = "returned"
    /\ gDry
    /\ ~gErr
    /\ \E i \in 1..Len(gFindings) : gFindings[i].category = "stale_todo"
    /\ \E i \in 1..Len(gFindings) : gFindings[i].category = "orphaned_region"
    /\ tasks = <<>>
    /\ turnRows = {}

\* the rows a human reviewer could read a finding from: every table of the
\* store and the stream of tasks
ReviewStore == <<storeVars, turns, turnRegions, turnRows, planStatus, planTurns, decisions, rvStatus, rvReason, rvComment>>

\* C21: a run of RunGardener outside dry mode routes each finding by its
\* mechanical flag: a mechanical finding is pushed as a gardener task, a
\* finding that is not mechanical (sync_drift among them) is written to the
\* store for a human to review and no task is pushed for it
C21_RoutedByMechanicalFlag ==
    [][(gpc = "idle" /\ gpc' = "returned" /\ ~gDry' /\ ~gErr') =>
          \A i \in 1..Len(gFindings') :
             IF gFindings'[i].mechanical
             THEN \E k \in (Len(tasks) + 1)..Len(tasks') :
                     /\ tasks'[k].type = "gardener"
                     /\ tasks'[k].region = gFindings'[i].region
             ELSE /\ tasks' = tasks
                  /\ ReviewStore' # ReviewStore]_vars

\* the markers of a file in the order ScanFile meets them
RECURSIVE MarkerEvents(_, _)
MarkerEvents(lines, n) ==
    IF n > Len(lines) THEN <<>>
    ELSE LET rp == extractRegionPath(lines[n], "region")
             ep == extractRegionPath(lines[n], "endregion")
         IN  (IF rp = <<>> THEN <<>> ELSE <<[kind |-> "region", path |-> rp, line |-> n]>>)
               \o (IF ep = <<>> THEN <<>> ELSE <<[kind |-> "endregion", path |-> ep, line |-> n]>>)
               \o MarkerEvents(lines, n + 1)

CountOf(ev, kind, path, a, b) ==
    Cardinality({k \in a..b : ev[k].kind = kind /\ ev[k].path = path})

\* the markers of the path strictly between i and j pair up among themselves
Balanced(ev, path, i, j) ==
    /\ CountOf(ev, "region", path, i + 1, j - 1) = CountOf(ev, "endregion", path, i + 1, j - 1)
    /\ \A m \in (i + 1)..(j - 1) :
          CountOf(ev, "endregion", path, i + 1, m) <= CountOf(ev, "region", path, i + 1, m)

\* a marker is paired when it closes the nearest open marker of its path, or
\* is closed by the marker that does
Paired(ev, k) ==
    IF ev[k].kind = "region"
    THEN \E j \in (k + 1)..Len(ev) :
            ev[j].kind = "endregion" /\ ev[j].path = ev[k].path /\ Balanced(ev, ev[k].path, k, j)
    ELSE \E i \in 1..(k - 1) :
            ev[i].kind = "region" /\ ev[i].path = ev[k].path /\ Balanced(ev, ev[k].path, i, k)

Unpaired(lines) ==
    {MarkerEvents(lines, 1)[k] : k \in {x \in 1..Len(MarkerEvents(lines, 1)) : ~Paired(MarkerEvents(lines, 1), x)}}

WarningFor(u) ==
    [kind |-> IF u.kind = "region" THEN "never closed" ELSE "without matching",
     line |-> u.line, path |-> u.path]

\* C22: the warnings of a ScanFile that read the whole file are exactly the
\* unpaired markers of the file: one "never closed" warning for each
\* @region without its @endregion, one "without matching" warning for each
\* @endregion without an open @region, and no warning for a paired marker
C22_WarningsAreUnpairedMarkers ==
    (rgOp = "scan" /\ ~rgOut.err) =>
        /\ SeqRange(rgOut.warnings) = {WarningFor(u) : u \in Unpaired(rgFile.lines)}
        /\ Len(rgOut.warnings) = Cardinality(Unpaired(rgFile.lines))

MarkersOf(out, path) == {i \in 1..Len(out.markers) : out.markers[i].path = path}

\* C23: ScanFile of a file that ScaffoldRegion created returns no error and
\* no warning and exactly one marker for each path scaffolded into it, and
\* a further ScaffoldRegion with a path already scaffolded into it leaves
\* the file as it is
C23_ScaffoldScansCleanAndIdempotent ==
    [][/\ (rgOp' = "scan" /\ rgFresh) =>
            /\ ~rgOut'.err
            /\ rgOut'.warnings = <<>>
            /\ \A p \in rgScaffolded : Cardinality(MarkersOf(rgOut', p)) = 1
            /\ Len(rgOut'.markers) = Cardinality(rgScaffolded)
       /\ (rgOp' = "scaffold" /\ rgFresh /\ rgArg' \in rgScaffolded) =>
            rgFile' = rgFile]_vars

C23_Witness ==
    /\ rgOp = "scan"
    /\ rgFresh
    /\ rgScaffolded = {PathAB}
    /\ Len(rgFile.lines) = 3
    /\ Len(rgFile.lines[1]) = 3
    /\ Len(rgOut.markers) = 1
    /\ rgOut.markers[1] = [path |-> PathAB, start |-> 1, end |-> 3]
    /\ rgOut.warnings = <<>>

\* the paths arch.md declares, and those of two or more segments whose
\* immediate parent it does not declare
Declared == {extractRegionPath(rgFile.lines[i], "region") : i \in 1..Len(rgFile.lines)} \ {<<>>}
Parentless == {p \in Declared : HasDot(p) /\ ParentPath(p) \notin Declared}

\* C24: ValidateArchNamespaces on a manifest it could read reports an issue
\* exactly when some declared path of two or more segments has an immediate
\* parent that is not declared, and it reports one issue for each such path
C24_OneIssuePerParentlessPath ==
    (rgOp = "arch" /\ ~rgOut.err) =>
        /\ (rgOut.issues # <<>>) <=> (Parentless # {})
        /\ \A p \in Parentless :
              Cardinality({i \in 1..Len(rgOut.issues) : rgOut.issues[i].path = p}) = 1
        /\ Len(rgOut.issues) = Cardinality(Parentless)

C24_Witness ==
    /\ rgOp = "arch"
    /\ ~rgOut.err
    /\ Len(rgFile.lines) = 3
    /\ Declared = {PathA, PathABC}
    /\ Len(rgOut.issues) = 1
    /\ rgOut.issues[1].path = PathABC

\* C25: the turn ids allocated within one second never collide: the ids one
\* CreatePlan generates back to back differ from each other and from the
\* ids of the turns rows, so every call inserts one new turns row per turn
\* of the plan and commits
C25_TurnIdsNeverCollide ==
    [][(wpc[Creator] = "idle" /\ wpc'[Creator] # "idle") =>
          /\ planStatus' = "ACTIVE"
          /\ Cardinality(turnRows' \ turnRows) = 2
          /\ Cardinality({t \in GenIds : planTurns'[t].present}) = 2]_vars

\* C26: the advisory lock is taken and released on one and the same
\* session: the unlock statement of a processor runs on a session that
\* holds the key of its path and releases it there
C26_UnlockOnLockingSession ==
    [][\A p \in Procs :
          (pc[p] = "unlock" /\ pc'[p] # "unlock") =>
             \E c \in Conns :
                /\ locks[c][Key(p)] > 0
                /\ locks'[c][Key(p)] = locks[c][Key(p)] - 1]_vars

Terminal(i) == i <= Len(stream) /\ propStatus[stream[i].pid] \in {"APPROVED", "REJECTED"}

\* C27: a message that was delivered and is still unacknowledged when the
\* consumers have stopped is delivered again after the restart, and its
\* proposal is eventually APPROVED or REJECTED
C27_UnackedIsRedelivered ==
    \A i \in 1..MaxSubmit :
       (i \in pel /\ \A p \in Procs : pc[p] = "stopped") ~> Terminal(i)

C29_ActivatedAndPushedOnce ==
    [][\A t \in GenIds :
          /\ Pushed(tasks', t) <= 1
          /\ Pushed(tasks', t) > Pushed(tasks, t) =>
                planTurns[t].status = "pending" /\ planTurns'[t].status = "active"]_vars

\* no plan-turn of the plan depends on itself, directly or through the other
Acyclic ==
    \A t \in GenIds :
       /\ t \notin planTurns[t].deps
       /\ \A d \in planTurns[t].deps \cap GenIds : t \notin planTurns[d].deps

\* C30: in a plan without a cycle of depends_on, when the proposal of every
\* enqueued turn is approved in the end, every plan-turn is pushed and
\* becomes completed and the plan becomes COMPLETED
C30_AcyclicPlanCompletes ==
    /\ (planStatus = "ACTIVE" /\ Acyclic) ~> (planStatus = "COMPLETED")
    /\ \A t \in GenIds :
          (planTurns[t].present /\ Acyclic) ~>
             (planTurns[t].status = "completed" /\ Pushed(tasks, t) > 0)

\* a plan whose second turn depends on its first was released in that order
\* and is completed
C30_Witness ==
    /\ planStatus = "COMPLETED"
    /\ Acyclic
    /\ \E t \in GenIds : \E d \in planTurns[t].deps \cap GenIds :
          /\ planTurns[d].present
          /\ planTurns[t].present
          /\ Pushed(tasks, d) = 1
          /\ Pushed(tasks, t) = 1
          /\ tasks[1].turn = d
    /\ \A t \in GenIds : planTurns[t].present /\ planTurns[t].status = "completed"

\* the open regions after the first k markers when an @endregion closes the
\* region opened last and nothing else, the region opened last at the end
RECURSIVE OpenStack(_, _)
OpenStack(ev, k) ==
    IF k = 0 THEN <<>>
    ELSE LET before == OpenStack(ev, k - 1)
         IN  IF ev[k].kind = "region" THEN Append(before, ev[k].path)
             ELSE IF before # <<>> /\ before[Len(before)] = ev[k].path
             THEN SubSeq(before, 1, Len(before) - 1)
             ELSE before

\* the @endregion markers whose path is not the region opened last
OffTop(ev) ==
    {k \in 1..Len(ev) :
        /\ ev[k].kind = "endregion"
        /\ \/ OpenStack(ev, k - 1) = <<>>
           \/ OpenStack(ev, k - 1)[Len(OpenStack(ev, k - 1))] # ev[k].path}

\* C40: in a ScanFile that read the whole file, an @endregion whose path is
\* not the region opened last and still open closes no marker and is
\* reported by a "without matching" warning
C40_EndregionClosesTopOnly ==
    (rgOp = "scan" /\ ~rgOut.err) =>
        \A k \in OffTop(MarkerEvents(rgFile.lines, 1)) :
           /\ \E i \in 1..Len(rgOut.warnings) :
                 /\ rgOut.warnings[i].kind = "without matching"
                 /\ rgOut.warnings[i].line = MarkerEvents(rgFile.lines, 1)[k].line
           /\ \A i \in 1..Len(rgOut.markers) :
                 rgOut.markers[i].end # MarkerEvents(rgFile.lines, 1)[k].line

\* C31: a plan-turn is set to active or pushed onto the task queue only
\* while the status of its plan is ACTIVE; the pending turns of a plan that
\* was closed or completed are left alone
C31_NoActivationUnlessPlanActive ==
    [][\A t \in GenIds :
          (\/ Pushed(tasks', t) > Pushed(tasks, t)
           \/ planTurns[t].status # "active" /\ planTurns'[t].status = "active")
             => planStatus = "ACTIVE"]_vars

\* the statuses a proposal ends in
Decided == {"APPROVED", "REJECTED"}

\* C32: a proposal that is APPROVED or REJECTED keeps that status for good,
\* and a consumer that works on a message of such a proposal writes nothing
\* to the regions, the synchronizations and their references: its mutations
\* were applied when it was approved and are not applied again
C32_DecidedOnce ==
    [][/\ \A id \in PropIds :
             propStatus[id] \in Decided => propStatus'[id] = propStatus[id]
       /\ \A p \in Procs :
             (/\ pc[p] = "approve"
              /\ pc'[p] # "approve"
              /\ propStatus[Cur(p).id] \in Decided)
                => <<lifecycle, syncs, syncRefs>>' = <<lifecycle, syncs, syncRefs>>]_vars

\* C33: the lifecycle state of a region changes only in the approval of a
\* proposal for that region whose declared current state is the state the
\* region is in, and it becomes the proposal's proposed state
C33_LifecycleChangesFromDeclaredState ==
    [][\A r \in Regions :
          lifecycle'[r] # lifecycle[r] =>
             \E p \in Procs :
                /\ pc[p] = "approve"
                /\ Cur(p).region = r
                /\ Cur(p).current = lifecycle[r]
                /\ Cur(p).proposed = lifecycle'[r]]_vars

\* the run of Validate sent a query to the store that failed: the lookup of
\* the region, which every run starts with, or the scope query, which
\* follows it for an existing region and a proposal with a turn
QueryFailed ==
    \/ vIn.qerr = "region"
    \/ vIn.qerr = "scope" /\ vIn.p.region \in Regions /\ vIn.p.turn # NoTurn

\* C34: a run of Validate in which a store query failed returns the error
\* to its caller; it returns no validation result, neither a failed one,
\* which would get the proposal REJECTED, nor a passed one
C34_StoreFailureIsError ==
    (vpc = "done" /\ QueryFailed) => vOut.err

\* the checks of the validator, each taken alone, for the proposal and the
\* store of the run: does it fail?
RegionFails == vIn.qerr = "region" \/ vIn.p.region \notin Regions
ScopeFails ==
    /\ vIn.p.turn # NoTurn
    /\ vIn.qerr # "scope"
    /\ ~IsAncestorOrSelf(TurnScope[vIn.p.turn], vIn.p.region)
MarkersFail ==
    \E i \in 1..Len(vIn.p.modifiedRegions) :
       ~FileHasRegionMarkers(vIn.p.modifiedRegions[i].file, vIn.p.modifiedRegions[i].path)
Tier0Fails == RegionFails \/ ScopeFails \/ MarkersFail

GoverningRows == SeqRange(GetConceptsForRegion(vIn.p.region, assignments))

\* no transition is declared, or a governing concept has it
TransitionFound ==
    \/ vIn.p.current = "" \/ vIn.p.proposed = ""
    \/ \E c \in GoverningRows :
          isLegalTransition(c.transitions, vIn.p.current, vIn.p.proposed, vIn.p.action)
InvariantsFail ==
    \E c \in GoverningRows : \E i \in 1..Len(c.invariants) :
       ~checkInvariant(c.invariants[i], vIn.p).passed
SyncRefsFail ==
    \E sc \in SeqRange(vIn.p.added \o vIn.p.modified) : ~SyncRefsOk(sc, vIn.qerr)

\* the details of the result that did not pass
FailedDetails == {i \in 1..Len(vOut.result.details) : ~vOut.result.details[i].passed}

\* what C35 says of the result of one run
FirstFailureReported ==
    /\ Tier0Fails =>
          /\ ~vOut.err
          /\ vOut.result.tier = 0
          /\ vOut.result.code = (IF RegionFails THEN 1 ELSE IF ScopeFails THEN 2 ELSE 3)
          /\ Len(vOut.result.details) <= 1
    /\ (~vOut.err /\ vOut.result.tier = 1) =>
          /\ ~Tier0Fails
          /\ vOut.result.code \in {-1, -3, -4} => TransitionFound
          /\ vOut.result.code \in {-3, -4} => ~InvariantsFail
          /\ vOut.result.code = -4 => ~SyncRefsFail
          /\ vOut.result.passed => ~InvariantsFail /\ ~SyncRefsFail
    /\ ~vOut.err =>
          /\ vOut.result.passed <=> vOut.result.code = 0
          /\ vOut.result.passed => FailedDetails = {}
          /\ ~vOut.result.passed => FailedDetails \subseteq {Len(vOut.result.details)}

C35_WitnessTier1 ==
    /\ vpc = "done"
    /\ ~Tier0Fails
    /\ TransitionFound
    /\ InvariantsFail
    /\ SyncRefsFail
    /\ vOut.result.code = -1

\* the proposal of the run belongs to a turn, and its region, which exists,
\* is neither the scope of that turn nor below it
OutOfScope ==
    /\ vIn.p.turn # NoTurn
    /\ vIn.p.region \in Regions
    /\ vIn.qerr # "region"
    /\ ~IsAncestorOrSelf(TurnScope[vIn.p.turn], vIn.p.region)

\* C36: Validate answers a proposal whose region lies outside the scope of
\* its turn with a failed tier-0 result of code 2, so that the processor
\* rejects it and never approves it
C36_OutOfScopeFailsWithCode2 ==
    (vpc = "done" /\ OutOfScope) =>
        /\ ~vOut.err
        /\ ~vOut.result.passed
        /\ vOut.result.tier = 0
        /\ vOut.result.code = 2

\* a step of `turn end`
TurnEnds == lastOp' \in {"end", "end --skip-validation"}

\* C37: `turn end` is all or nothing: either the turn_regions rows are
\* recorded and the turn is COMPLETED with its scratchpad, tree_after and
\* completion time, or the command returns an error, nothing was written
\* and the turn is still ACTIVE
C37_TurnEndAllOrNothing ==
    [][TurnEnds =>
          \/ /\ endErr' = "ok"
             /\ turns'[MostRecentActive].status = "COMPLETED"
             /\ turns'[MostRecentActive].completed
             /\ turns'[MostRecentActive].scratchpad # ""
             /\ turns'[MostRecentActive].tree_after # {}
          \/ /\ endErr' # "ok"
             /\ turns' = turns
             /\ turnRegions' = turnRegions]_vars

\* region p has markers in the tree_before of turn t
InBefore(t, p) == \E b \in turns[t].tree_before : p \in DOMAIN b

\* region p has markers in the source tree `turn end` scans
InAfter(p) == srcTree[p] # 0

\* the action the diff of the two snapshots gives region p
DiffOf(t, p) ==
    IF ~InBefore(t, p) /\ InAfter(p) THEN "created"
    ELSE IF InBefore(t, p) /\ InAfter(p) THEN "modified"
    ELSE "deleted"

\* C38: a `turn end` that succeeds leaves, for every region that has markers
\* in tree_before or in tree_after, the turn_regions row of the turn and the
\* region with the action of the diff: created, modified or deleted
C38_RowPerCoveredRegion ==
    [][(TurnEnds /\ endErr' = "ok") =>
          \A p \in SrcPaths :
             (InBefore(MostRecentActive, p) \/ InAfter(p)) =>
                turnRegions'[<<MostRecentActive, p>>] = DiffOf(MostRecentActive, p)]_vars

\* turn t was opened by `turn start`, which stores the tree_before snapshot;
\* the turns the Memorizer inserts for its tasks have none
OpenedByTurnStart(t) == turns[t].present /\ turns[t].tree_before # {}

\* C39: `turn end` changes the status of a turn that an agent opened with
\* `turn start` and of no other turn: an ACTIVE turn inserted by CreatePlan
\* or for a deferred or gardener task is not completed by it
C39_EndsOnlyAnOpenedTurn ==
    [][TurnEnds =>
          \A t \in TurnIds :
             turns'[t].status # turns[t].status => OpenedByTurnStart(t)]_vars

====
